---- MODULE Spec2Model ----
(***************************************************************************)
(* Job orchestration and search cache of CarScraper                        *)
(* (backend/services/job_manager.py, backend/db/crud.py,                   *)
(* backend/db/models.py).                                                  *)
(*                                                                         *)
(* One request at a time goes through start_scrape_job (cache lookup, then *)
(* job creation and task scheduling); every created job is run by its own  *)
(* background task _run_scrape_job, whose awaits are the interleaving      *)
(* points of the model.  Time is a clock in hours.                         *)
(*                                                                         *)
(* Each background task owns one SQLAlchemy session.  A statement that     *)
(* cannot get a connection raises and leaves the session usable; a commit  *)
(* whose flush fails (a constraint violation, a lost connection) raises    *)
(* and leaves the session's transaction inactive, so that every later      *)
(* statement on that session raises PendingRollbackError: the code never   *)
(* calls rollback().                                                       *)
(***************************************************************************)
EXTENDS Integers, Sequences, FiniteSets, TLC

VARIABLES now, platform_rows, jobs, cache, listings, task, hist, req, fault_budget,
          call

vars == <<now, platform_rows, jobs, cache, listings, task, hist, req, fault_budget,
          call>>

-----------------------------------------------------------------------------
(* Bounds of the model *)

MaxJobs == 2
MaxTime == 6
MaxFaults == 2
MaxFaultJobs == 1
MaxCount == 1
MaxProgressPlatforms == 50
MaxKeyLen == 3

(* Program constants *)

CACHE_TTL_HOURS == 6

(* The clock advances in steps of the cache lifetime. *)
TickHours == CACHE_TTL_HOURS

(* Python's None for an integer and for a string column *)
NoInt == 0 - 1
NoStr == "None"

-----------------------------------------------------------------------------
(* SCRAPER_MAP once _get_scraper_map has filled in the lazily imported     *)
(* classes.  max_pages is the default of the class's search().             *)

SCRAPER_MAP ==
  [ bat           |-> [name |-> "Bring a Trailer",    scraper_class |-> "BaTScraper",           listing_type |-> "auction",  max_pages |-> 10],
    carsandbids   |-> [name |-> "Cars & Bids",        scraper_class |-> "CarsAndBidsScraper",   listing_type |-> "auction",  max_pages |-> 10],
    autotrader    |-> [name |-> "Autotrader",         scraper_class |-> "AutotraderScraper",    listing_type |-> "used_car", max_pages |-> 5],
    carscom       |-> [name |-> "Cars.com",           scraper_class |-> "CarsComScraper",       listing_type |-> "used_car", max_pages |-> 5],
    mobilede      |-> [name |-> "Mobile.de",          scraper_class |-> "MobileDeScraper",      listing_type |-> "used_car", max_pages |-> 5],
    autoscout24   |-> [name |-> "AutoScout24",        scraper_class |-> "AutoScout24Scraper",   listing_type |-> "used_car", max_pages |-> 5],
    kleinanzeigen |-> [name |-> "eBay Kleinanzeigen", scraper_class |-> "KleinanzeigenScraper", listing_type |-> "used_car", max_pages |-> 5] ]

(* The rows seed_platforms inserts at start-up *)
seed_platforms ==
  { "Bring a Trailer", "Cars & Bids", "Autotrader", "Cars.com", "CarGurus",
    "Mobile.de", "AutoScout24", "eBay Kleinanzeigen" }

(* Platform keys a request may carry; "cargurus" has no entry in SCRAPER_MAP *)
PlatformKeys == {"autotrader", "bat", "cargurus"}

(* Lexicographic rank of the keys, the order sorted() puts them in *)
KeyRank == [autotrader |-> 1, bat |-> 2, cargurus |-> 3]

(* The two callers of start_scrape_job, search_auctions and               *)
(* search_used_cars: each passes its own search_params dictionary and      *)
(* job_type.                                                               *)
Routes == {"auctions", "used_cars"}

JobTypeOf(route) == IF route = "used_cars" THEN "used_car" ELSE "auction"

(* The requests submitted: the route and its platform list *)
Requests ==
  { [route |-> "auctions",  platforms |-> <<>>],
    [route |-> "auctions",  platforms |-> <<"bat", "autotrader">>],
    [route |-> "auctions",  platforms |-> <<"autotrader", "bat">>],
    [route |-> "used_cars", platforms |-> <<>>],
    [route |-> "used_cars", platforms |-> <<"cargurus">>] }

-----------------------------------------------------------------------------
(* Cache key *)

RECURSIVE Insert(_, _)
Insert(k, s) ==
  IF s = <<>> THEN <<k>>
  ELSE IF KeyRank[k] <= KeyRank[Head(s)] THEN <<k>> \o s
       ELSE <<Head(s)>> \o Insert(k, Tail(s))

(* Faulty variant of sorted: the list is hashed in the caller's order *)
unsorted(s) == s

(* sorted(platforms) *)
RECURSIVE sorted(_)
sorted(s) == IF s = <<>> THEN <<>> ELSE Insert(Head(s), sorted(Tail(s)))

(* json.dumps({"params": ..., "platforms": sorted(platforms)},             *)
(* sort_keys=True): the text is the params, then the sorted list.          *)
json_dumps(search_params, platform_list) ==
  <<"params", search_params, "platforms">> \o platform_list

(* SHA-256 is taken to be collision free: the digest stands for its text.  *)
sha256_hexdigest(raw) == raw

build_cache_key(search_params, platforms) ==
  sha256_hexdigest(json_dumps(search_params, sorted(platforms)))

(* Faulty variant of UnexpiredRows: expires_at >= now *)
UnexpiredRowsInclusive(rows, cache_key, t) ==
  { c \in rows : c.cache_key = cache_key /\ c.expires_at >= t }

(* Rows of search_cache selected by get_cached_job: same key, expiring     *)
(* strictly after now.                                                     *)
UnexpiredRows(rows, cache_key, t) ==
  { c \in rows : c.cache_key = cache_key /\ c.expires_at > t }

(* get_cached_job: scalar_one_or_none over UnexpiredRows; cache_key is     *)
(* unique, so there is at most one row.                                    *)
get_cached_job(rows, cache_key, t) ==
  IF UnexpiredRows(rows, cache_key, t) = {} THEN NoInt
  ELSE (CHOOSE c \in UnexpiredRows(rows, cache_key, t) : TRUE).job_id

-----------------------------------------------------------------------------
(* Job rows *)

(* create_job with the column defaults of ScrapeJob *)
create_job(platforms, search_params, job_type) ==
  [ status              |-> "pending",
    progress            |-> 0,
    total_results       |-> 0,
    platforms_requested |-> platforms,
    search_params       |-> search_params,
    job_type            |-> job_type,
    error_message       |-> NoStr,
    created_at          |-> now,
    completed_at        |-> NoInt ]

(* The assignments of update_job_status on the row *)
update_row(row, status, progress, total_results, error_message, t) ==
  [ row EXCEPT
      !.status        = status,
      !.progress      = IF progress # NoInt THEN progress ELSE @,
      !.total_results = IF total_results # NoInt THEN total_results ELSE @,
      !.error_message = IF error_message # NoStr THEN error_message ELSE @,
      !.completed_at  = IF status \in {"completed", "failed"} THEN t ELSE @ ]

(* Faulty variant of update_job_status: completed_at stamped by every     *)
(* update, whatever the status                                             *)
update_job_status_always_stamps(j, status, progress, total_results, error_message) ==
  /\ jobs' = [jobs EXCEPT ![j] =
                [update_row(@, status, progress, total_results, error_message, now)
                   EXCEPT !.completed_at = now]]
  /\ hist' = [hist EXCEPT ![j].stamps = @ + 1]

(* Faulty variant of update_job_status: the row written is the one of the *)
(* job created last, as if job_id were shared by the tasks                 *)
update_job_status_latest_job(j, status, progress, total_results, error_message) ==
  /\ jobs' = [jobs EXCEPT ![Len(jobs)] =
                update_row(@, status, progress, total_results, error_message, now)]
  /\ hist' = [hist EXCEPT ![j].stamps =
                IF status \in {"completed", "failed"} THEN @ + 1 ELSE @]

(* update_job_status when its get and commit both succeed *)
update_job_status(j, status, progress, total_results, error_message) ==
  /\ jobs' = [jobs EXCEPT ![j] =
                update_row(@, status, progress, total_results, error_message, now)]
  /\ hist' = [hist EXCEPT ![j].stamps =
                IF status \in {"completed", "failed"} THEN @ + 1 ELSE @]

-----------------------------------------------------------------------------
(* Progress arithmetic of _run_scrape_job *)

(* (idx / platform_count) * 100 is evaluated in IEEE-754 doubles before    *)
(* int() truncates it.  The double result falls just below the exact       *)
(* integer for idx = 29, platform_count = 50 (57.99999999999999) and for   *)
(* no other pair with platform_count <= 60, where it truncates one lower.  *)
FloatDeficit(idx, platform_count) ==
  IF idx = 29 /\ platform_count = 50 THEN 1 ELSE 0

(* base_progress = int((idx / platform_count) * 100) *)
base_progress(idx, platform_count) ==
  ((100 * idx) \div platform_count) - FloatDeficit(idx, platform_count)

(* range_progress = int(100 / platform_count) *)
range_progress(platform_count) == 100 \div platform_count

Min(a, b) == IF a <= b THEN a ELSE b

(* on_progress: min(base_progress + int((page / max_pages) * range), 95);  *)
(* the double product truncates to the exact quotient for max_pages <= 10. *)
on_progress_pct(idx, platform_count, page, max_pages) ==
  Min(base_progress(idx, platform_count)
        + ((page * range_progress(platform_count)) \div max_pages), 95)

(* Pages an adapter reports to the callback, in increasing order *)
CallbackPages(max_pages) == {1, max_pages}

-----------------------------------------------------------------------------
(* Sessions of the background tasks *)

(* Outcome of a database call made by job j's task through its session.    *)
(* kinds: the errors this call can meet.  "OperationalError": no           *)
(* connection could be acquired for the first statement of a transaction.  *)
(* "DBAPIError": the flush of a commit failed.                             *)
DbOutcomes(j, kinds) ==
  IF ~task[j].session_ok THEN {"PendingRollbackError"}
  ELSE {"ok"} \cup (IF fault_budget > 0 THEN kinds ELSE {})

(* Faulty variant of SessionUsable: a session that survives a failed      *)
(* flush, as if every handler rolled back                                  *)
SessionNeverPoisoned(o) == TRUE

(* Is the session usable after a call that ended with outcome o? *)
SessionUsable(o) == o \in {"ok", "OperationalError"}

Injected(o) == o \in {"OperationalError", "DBAPIError"}

(* Bookkeeping common to every database call of job j with outcome o *)
DbCall(j, o) ==
  /\ fault_budget' = IF Injected(o) THEN fault_budget - 1 ELSE fault_budget

-----------------------------------------------------------------------------
(* Initial state: tables created and seeded, nothing submitted *)

(* No adapter or aggregator operation is being followed *)
NoCall == [op |-> "none"]

Idle == [phase |-> "idle", platforms |-> <<>>, params |-> NoStr,
         job_id |-> NoInt, cached |-> FALSE]

NewTask(platforms, cache_key) ==
  [ pc |-> "scheduled", idx |-> 0, total_listings |-> 0, last_page |-> 0,
    session_ok |-> TRUE, exc |-> NoStr,
    platforms |-> platforms, cache_key |-> cache_key ]

NewHist == [returned |-> 0, raised |-> FALSE, stamps |-> 0, progress_failed |-> FALSE]

NoListings == [auction |-> 0, used_car |-> 0]

Init ==
  /\ now = 0
  /\ platform_rows = seed_platforms
  /\ jobs = <<>>
  /\ cache = {}
  /\ listings = <<>>
  /\ task = <<>>
  /\ hist = <<>>
  /\ req = Idle
  /\ fault_budget = 0
  /\ call = NoCall

JobIds == 1..Len(jobs)

-----------------------------------------------------------------------------
(* start_scrape_job *)

(* Faulty variant of start_scrape_job_lookup: the hit is returned, and    *)
(* the job is created and scheduled all the same                           *)
start_scrape_job_lookup_schedules(platforms, route) ==
  /\ req.phase \in {"idle", "returned"}
  /\ LET cache_key == build_cache_key(route, platforms)
         cached_job_id == get_cached_job(cache, cache_key, now)
         hit == cached_job_id # NoInt
         room == Len(jobs) < MaxJobs
     IN /\ req' = IF hit
                  THEN [phase |-> "returned", platforms |-> platforms,
                        params |-> route, job_id |-> cached_job_id, cached |-> TRUE]
                  ELSE [phase |-> "creating", platforms |-> platforms,
                        params |-> route, job_id |-> NoInt, cached |-> FALSE]
        /\ jobs' = IF hit /\ room
                   THEN Append(jobs, create_job(platforms, route, JobTypeOf(route)))
                   ELSE jobs
        /\ task' = IF hit /\ room
                   THEN Append(task, NewTask(platforms, cache_key)) ELSE task
        /\ hist' = IF hit /\ room THEN Append(hist, NewHist) ELSE hist
        /\ listings' = IF hit /\ room THEN Append(listings, NoListings) ELSE listings
  /\ UNCHANGED <<call, now, platform_rows, cache, fault_budget>>

(* Lines 61-66: the cache check, and the return on a hit *)
start_scrape_job_lookup(platforms, route) ==
  /\ req.phase \in {"idle", "returned"}
  /\ LET cache_key == build_cache_key(route, platforms)
         cached_job_id == get_cached_job(cache, cache_key, now)
     IN req' = IF cached_job_id # NoInt
               THEN [phase |-> "returned", platforms |-> platforms,
                     params |-> route, job_id |-> cached_job_id, cached |-> TRUE]
               ELSE [phase |-> "creating", platforms |-> platforms,
                     params |-> route, job_id |-> NoInt, cached |-> FALSE]
  /\ UNCHANGED <<call, now, platform_rows, jobs, cache, listings, task, hist, fault_budget>>

(* Faulty variant of start_scrape_job_create: the run's first update is   *)
(* awaited before the return                                               *)
start_scrape_job_create_awaits(max_jobs) ==
  /\ req.phase = "creating"
  /\ Len(jobs) < max_jobs
  /\ jobs' = Append(jobs, [create_job(req.platforms, req.params, JobTypeOf(req.params))
                             EXCEPT !.status = "running"])
  /\ task' = Append(task, [NewTask(req.platforms,
                                   build_cache_key(req.params, req.platforms))
                             EXCEPT !.pc = "loop"])
  /\ hist' = Append(hist, NewHist)
  /\ listings' = Append(listings, NoListings)
  /\ req' = [Idle EXCEPT !.phase = "returned", !.job_id = Len(jobs) + 1]
  /\ UNCHANGED <<call, now, platform_rows, cache, fault_budget>>

(* Lines 68-77: create the job row, schedule the task, return *)
start_scrape_job_create(max_jobs) ==
  /\ req.phase = "creating"
  /\ Len(jobs) < max_jobs
  /\ jobs' = Append(jobs, create_job(req.platforms, req.params, JobTypeOf(req.params)))
  /\ task' = Append(task, NewTask(req.platforms,
                                  build_cache_key(req.params, req.platforms)))
  /\ hist' = Append(hist, NewHist)
  /\ listings' = Append(listings, NoListings)
  /\ req' = [Idle EXCEPT !.phase = "returned", !.job_id = Len(jobs) + 1]
  /\ UNCHANGED <<call, now, platform_rows, cache, fault_budget>>

-----------------------------------------------------------------------------
(* _run_scrape_job, one action per await *)

PlatformCount(j) == Len(task[j].platforms)

PlatformKey(j) == task[j].platforms[task[j].idx + 1]

(* Lines 97-105: unknown key, or no scraper class *)
NoScraper(key) ==
  IF key \notin DOMAIN SCRAPER_MAP THEN TRUE
  ELSE SCRAPER_MAP[key].scraper_class = NoStr

(* Line 91 *)
run_update_running(j) ==
  /\ task[j].pc = "scheduled"
  /\ \E o \in DbOutcomes(j, {"OperationalError"}) :
       /\ DbCall(j, o)
       /\ IF o = "ok"
          THEN /\ update_job_status(j, "running", 0, NoInt, NoStr)
               /\ task' = [task EXCEPT ![j].pc = "loop", ![j].idx = 0,
                                       ![j].total_listings = 0]
          ELSE /\ jobs' = jobs
               /\ hist' = hist
               /\ task' = [task EXCEPT ![j].pc = "except", ![j].exc = o,
                                       ![j].session_ok = SessionUsable(o)]
  /\ UNCHANGED <<call, now, platform_rows, cache, listings, req>>

(* Faulty variant of run_skip_platform: scraper_map[platform_key] without *)
(* the membership test, a KeyError that escapes the loop                   *)
run_skip_platform_keyerror(j) ==
  /\ task[j].pc = "loop"
  /\ task[j].idx < PlatformCount(j)
  /\ NoScraper(PlatformKey(j))
  /\ task' = [task EXCEPT ![j].pc = "except", ![j].exc = "KeyError"]
  /\ UNCHANGED <<call, now, platform_rows, jobs, cache, listings, hist, req, fault_budget>>

(* Lines 97-105: continue *)
run_skip_platform(j) ==
  /\ task[j].pc = "loop"
  /\ task[j].idx < PlatformCount(j)
  /\ NoScraper(PlatformKey(j))
  /\ task' = [task EXCEPT ![j].idx = @ + 1]
  /\ UNCHANGED <<call, now, platform_rows, jobs, cache, listings, hist, req, fault_budget>>

(* Lines 107-122: get_platform_by_name; continue when the row is missing,  *)
(* else enter scraper.search                                               *)
run_get_platform(j) ==
  /\ task[j].pc = "loop"
  /\ task[j].idx < PlatformCount(j)
  /\ ~NoScraper(PlatformKey(j))
  /\ \E o \in DbOutcomes(j, {"OperationalError"}) :
       /\ DbCall(j, o)
       /\ IF o = "ok"
          THEN /\ hist' = hist
               /\ task' = IF SCRAPER_MAP[PlatformKey(j)].name \in platform_rows
                          THEN [task EXCEPT ![j].pc = "search", ![j].last_page = 0]
                          ELSE [task EXCEPT ![j].idx = @ + 1]
          ELSE /\ hist' = hist
               /\ task' = [task EXCEPT ![j].pc = "except", ![j].exc = o,
                                       ![j].session_ok = SessionUsable(o)]
  /\ UNCHANGED <<call, now, platform_rows, jobs, cache, listings, req>>

(* Lines 118-120: the adapter awaits on_progress(page, max_pages, count).  *)
(* A failing update raises into the adapter and writes nothing.            *)
run_on_progress(j, page) ==
  /\ task[j].pc = "search"
  /\ page \in CallbackPages(SCRAPER_MAP[PlatformKey(j)].max_pages)
  /\ page >= task[j].last_page
  /\ \E o \in DbOutcomes(j, {"DBAPIError"}) :
       /\ DbCall(j, o)
       /\ IF o = "ok"
          THEN /\ update_job_status(j, "running",
                    on_progress_pct(task[j].idx, PlatformCount(j), page,
                                    SCRAPER_MAP[PlatformKey(j)].max_pages),
                    NoInt, NoStr)
               /\ task' = [task EXCEPT ![j].last_page = page]
          ELSE /\ jobs' = jobs
               /\ hist' = [hist EXCEPT ![j].progress_failed = TRUE]
               /\ task' = [task EXCEPT ![j].last_page = page,
                                       ![j].session_ok = SessionUsable(o)]
  /\ UNCHANGED <<call, now, platform_rows, cache, listings, req>>

(* Faulty variant of run_search_returns: the loop goes on to the next      *)
(* platform with the insert of the listings still pending                  *)
run_search_returns_unpersisted(j, count) ==
  /\ task[j].pc = "search"
  /\ task' = [task EXCEPT ![j].pc = "loop", ![j].idx = @ + 1, ![j].last_page = 0,
                          ![j].total_listings = @ + count]
  /\ hist' = [hist EXCEPT ![j].returned = @ + count]
  /\ UNCHANGED <<call, now, platform_rows, jobs, cache, listings, req, fault_budget>>

(* Faulty variant of run_search_returns: total_listings = len(listings),   *)
(* the count of the last platform instead of the running total             *)
run_search_returns_overwrites(j, count) ==
  /\ task[j].pc = "search"
  /\ LET ltype == SCRAPER_MAP[PlatformKey(j)].listing_type
     IN IF count = 0
        THEN /\ task' = [task EXCEPT ![j].pc = "loop", ![j].idx = @ + 1,
                                     ![j].last_page = 0]
             /\ UNCHANGED <<listings, hist, fault_budget>>
        ELSE \E o \in DbOutcomes(j, {"DBAPIError"}) :
               /\ DbCall(j, o)
               /\ listings' = IF o = "ok"
                              THEN [listings EXCEPT ![j][ltype] = @ + count]
                              ELSE listings
               /\ hist' = [hist EXCEPT ![j].returned = @ + count]
               /\ task' = [task EXCEPT
                             ![j].pc = "loop", ![j].idx = @ + 1, ![j].last_page = 0,
                             ![j].total_listings = IF o = "ok" THEN count ELSE @,
                             ![j].session_ok = SessionUsable(o)]
  /\ UNCHANGED <<call, now, platform_rows, jobs, cache, req>>

(* Lines 125-140: scraper.search returns count listings; a non-empty       *)
(* result is stored by add_auction_listings / add_used_car_listings and    *)
(* counted.  Line 142 swallows a failure of the insert.                    *)
run_search_returns(j, count) ==
  /\ task[j].pc = "search"
  /\ LET ltype == SCRAPER_MAP[PlatformKey(j)].listing_type
     IN IF count = 0
        THEN /\ task' = [task EXCEPT ![j].pc = "loop", ![j].idx = @ + 1,
                                     ![j].last_page = 0]
             /\ UNCHANGED <<listings, hist, fault_budget>>
        ELSE \E o \in DbOutcomes(j, {"DBAPIError"}) :
               /\ DbCall(j, o)
               /\ listings' = IF o = "ok"
                              THEN [listings EXCEPT ![j][ltype] = @ + count]
                              ELSE listings
               /\ hist' = [hist EXCEPT ![j].returned = @ + count]
               /\ task' = [task EXCEPT
                             ![j].pc = "loop", ![j].idx = @ + 1, ![j].last_page = 0,
                             ![j].total_listings = IF o = "ok" THEN @ + count ELSE @,
                             ![j].session_ok = SessionUsable(o)]
  /\ UNCHANGED <<call, now, platform_rows, jobs, cache, req>>

(* Faulty variant of run_search_raises: no inner try, the adapter's        *)
(* exception reaches the outer handler                                     *)
run_search_raises_escapes(j) ==
  /\ task[j].pc = "search"
  /\ task' = [task EXCEPT ![j].pc = "except", ![j].exc = "ScraperError",
                          ![j].last_page = 0]
  /\ hist' = [hist EXCEPT ![j].raised = TRUE]
  /\ UNCHANGED <<call, now, platform_rows, jobs, cache, listings, req, fault_budget>>

(* Lines 142-143: scraper.search raises; log and go to the next platform *)
run_search_raises(j) ==
  /\ task[j].pc = "search"
  /\ task' = [task EXCEPT ![j].pc = "loop", ![j].idx = @ + 1, ![j].last_page = 0]
  /\ hist' = [hist EXCEPT ![j].raised = TRUE]
  /\ UNCHANGED <<call, now, platform_rows, jobs, cache, listings, req, fault_budget>>

(* Lines 145-147 *)
run_update_completed(j) ==
  /\ task[j].pc = "loop"
  /\ task[j].idx = PlatformCount(j)
  /\ \E o \in DbOutcomes(j, {"OperationalError", "DBAPIError"}) :
       /\ DbCall(j, o)
       /\ IF o = "ok"
          THEN /\ update_job_status(j, "completed", 100, task[j].total_listings, NoStr)
               /\ task' = [task EXCEPT ![j].pc = "set_cache"]
          ELSE /\ jobs' = jobs
               /\ hist' = hist
               /\ task' = [task EXCEPT ![j].pc = "except", ![j].exc = o,
                                       ![j].session_ok = SessionUsable(o)]
  /\ UNCHANGED <<call, now, platform_rows, cache, listings, req>>

(* Faulty variant of set_cache: the row expires as it is written *)
set_cache_no_ttl(cache_key, job_id) ==
  [cache_key |-> cache_key, job_id |-> job_id, expires_at |-> now]

(* set_cache: the row its commit inserts *)
set_cache(cache_key, job_id) ==
  [cache_key |-> cache_key, job_id |-> job_id, expires_at |-> now + CACHE_TTL_HOURS]

(* search_cache.cache_key is declared unique=True: inserting a second row  *)
(* with a key already in the table, expired or not, fails the commit.      *)
UniqueViolation(rows, cache_key) == \E c \in rows : c.cache_key = cache_key

(* Lines 150-152 *)
run_set_cache(j) ==
  /\ task[j].pc = "set_cache"
  /\ \E o \in DbOutcomes(j, {"DBAPIError"}) :
       LET r == IF o = "ok" /\ UniqueViolation(cache, task[j].cache_key)
                THEN "IntegrityError" ELSE o
       IN /\ DbCall(j, r)
          /\ IF r = "ok"
             THEN /\ cache' = cache \cup {set_cache(task[j].cache_key, j)}
                  /\ hist' = hist
                  /\ task' = [task EXCEPT ![j].pc = "done"]
             ELSE /\ cache' = cache
                  /\ hist' = hist
                  /\ task' = [task EXCEPT ![j].pc = "except", ![j].exc = r,
                                          ![j].session_ok = SessionUsable(r)]
  /\ UNCHANGED <<call, now, platform_rows, jobs, listings, req>>

(* Faulty variant of run_except: the cache entry written on the way out   *)
(* of a failed run as well                                                 *)
run_except_caches(j) ==
  /\ task[j].pc = "except"
  /\ \E o \in DbOutcomes(j, {"OperationalError", "DBAPIError"}) :
       /\ DbCall(j, o)
       /\ IF o = "ok"
          THEN /\ update_job_status(j, "failed", NoInt, NoInt, task[j].exc)
               /\ cache' = cache \cup {set_cache(task[j].cache_key, j)}
               /\ task' = [task EXCEPT ![j].pc = "done"]
          ELSE /\ jobs' = jobs
               /\ hist' = hist
               /\ cache' = cache
               /\ task' = [task EXCEPT ![j].pc = "crashed",
                                       ![j].session_ok = SessionUsable(o)]
  /\ UNCHANGED <<call, now, platform_rows, listings, req>>

(* Lines 154-156: the handler of the outer try.  If its own update raises, *)
(* the task ends with that exception and the row keeps its last status.    *)
run_except(j) ==
  /\ task[j].pc = "except"
  /\ \E o \in DbOutcomes(j, {"OperationalError", "DBAPIError"}) :
       /\ DbCall(j, o)
       /\ IF o = "ok"
          THEN /\ update_job_status(j, "failed", NoInt, NoInt, task[j].exc)
               /\ task' = [task EXCEPT ![j].pc = "done"]
          ELSE /\ jobs' = jobs
               /\ hist' = hist
               /\ task' = [task EXCEPT ![j].pc = "crashed",
                                       ![j].session_ok = SessionUsable(o)]
  /\ UNCHANGED <<call, now, platform_rows, cache, listings, req>>

(* datetime.now advances *)
Tick ==
  /\ now + TickHours <= MaxTime
  /\ now' = now + TickHours
  /\ UNCHANGED <<call, platform_rows, jobs, cache, listings, task, hist, req, fault_budget>>

Next ==
  \/ \E r \in Requests : start_scrape_job_lookup(r.platforms, r.route)
  \/ start_scrape_job_create(MaxJobs)
  \/ \E j \in JobIds : run_update_running(j)
  \/ \E j \in JobIds : run_skip_platform(j)
  \/ \E j \in JobIds : run_get_platform(j)
  \/ \E j \in JobIds, page \in 1..10 : run_on_progress(j, page)
  \/ \E j \in JobIds, count \in 0..MaxCount : run_search_returns(j, count)
  \/ \E j \in JobIds : run_search_raises(j)
  \/ \E j \in JobIds : run_update_completed(j)
  \/ \E j \in JobIds : run_set_cache(j)
  \/ \E j \in JobIds : run_except(j)
  \/ Tick

Spec == Init /\ [][Next]_vars

-----------------------------------------------------------------------------
(* The same program on a database whose calls can fail: at most MaxFaults  *)
(* calls of the background tasks raise.                                    *)

InitFaults ==
  /\ now = 0
  /\ platform_rows = seed_platforms
  /\ jobs = <<>>
  /\ cache = {}
  /\ listings = <<>>
  /\ task = <<>>
  /\ hist = <<>>
  /\ req = Idle
  /\ fault_budget = MaxFaults
  /\ call = NoCall

NextFaults ==
  \/ \E r \in Requests : start_scrape_job_lookup(r.platforms, r.route)
  \/ start_scrape_job_create(MaxFaultJobs)
  \/ \E j \in JobIds : run_update_running(j)
  \/ \E j \in JobIds : run_skip_platform(j)
  \/ \E j \in JobIds : run_get_platform(j)
  \/ \E j \in JobIds, page \in 1..10 : run_on_progress(j, page)
  \/ \E j \in JobIds, count \in 0..MaxCount : run_search_returns(j, count)
  \/ \E j \in JobIds : run_search_raises(j)
  \/ \E j \in JobIds : run_update_completed(j)
  \/ \E j \in JobIds : run_set_cache(j)
  \/ \E j \in JobIds : run_except(j)
  \/ Tick

SpecFaults == InitFaults /\ [][NextFaults]_vars

-----------------------------------------------------------------------------
(* One auction search over n times "bat", just created: the progress       *)
(* arithmetic over every platform count up to MaxProgressPlatforms.  The   *)
(* adapters report pages and then return nothing or raise.                 *)

Bats(n) == [i \in 1..n |-> "bat"]

InitProgress ==
  /\ now = 0
  /\ platform_rows = seed_platforms
  /\ \E n \in 1..MaxProgressPlatforms :
       /\ jobs = <<create_job(Bats(n), "auctions", JobTypeOf("auctions"))>>
       /\ task = <<NewTask(Bats(n), build_cache_key("auctions", Bats(n)))>>
  /\ cache = {}
  /\ listings = <<NoListings>>
  /\ hist = <<NewHist>>
  /\ req = [Idle EXCEPT !.phase = "returned", !.job_id = 1]
  /\ fault_budget = 0
  /\ call = NoCall

NextProgress ==
  \/ \E j \in JobIds : run_update_running(j)
  \/ \E j \in JobIds : run_get_platform(j)
  \/ \E j \in JobIds, page \in 1..10 : run_on_progress(j, page)
  \/ \E j \in JobIds : run_search_returns(j, 0)
  \/ \E j \in JobIds : run_search_raises(j)
  \/ \E j \in JobIds : run_update_completed(j)
  \/ \E j \in JobIds : run_set_cache(j)

SpecProgress == InitProgress /\ [][NextProgress]_vars

-----------------------------------------------------------------------------
(* start_scrape_job over every platform list of length up to MaxKeyLen:    *)
(* the cache keys of the jobs it creates.                                  *)

RECURSIVE SeqsUpTo(_)
SeqsUpTo(n) ==
  IF n = 0 THEN {<<>>}
  ELSE SeqsUpTo(n - 1)
         \cup {Append(s, k) : s \in {t \in SeqsUpTo(n - 1) : Len(t) = n - 1},
                              k \in PlatformKeys}

NextKey ==
  \/ \E platforms \in SeqsUpTo(MaxKeyLen), route \in Routes :
       start_scrape_job_lookup(platforms, route)
  \/ start_scrape_job_create(MaxJobs)

SpecKey == Init /\ [][NextKey]_vars

-----------------------------------------------------------------------------
(* Properties *)

Terminal(status) == status \in {"completed", "failed"}

(* The per-platform loop of job j's run is over *)
AfterLoop(j) == task[j].pc \in {"set_cache", "done", "except", "crashed"}

(* The run of job j has ended *)
RunOver(j) == task[j].pc \in {"done", "crashed"}

ReqKey(r) == build_cache_key(r.params, r.platforms)

(* A step of start_scrape_job's cache check that returns a hit / goes on   *)
(* to create a job                                                         *)
HitStep == req.phase # "creating" /\ req'.phase = "returned" /\ req'.cached /\ req' # req

MissStep == req.phase # "creating" /\ req'.phase = "creating"

(* C1: an exception raised by an adapter's search never makes the job      *)
(* failed: with every subset of its adapters raising, the job is completed *)
(* once its loop is over, with total_results the sum of the listing counts *)
(* returned by the adapters that did not raise.                            *)
C1_PartialFailureCompletes ==
  \A j \in JobIds :
    /\ jobs[j].status # "failed"
    /\ AfterLoop(j) => /\ jobs[j].status = "completed"
                       /\ jobs[j].total_results = hist[j].returned

C1_Witness ==
  \E j \in JobIds :
    /\ task[j].pc = "done"
    /\ hist[j].raised
    /\ hist[j].returned > 0
    /\ jobs[j].status = "completed"
    /\ jobs[j].total_results = hist[j].returned

(* C2: a job whose platforms are all skipped, all fail or all return       *)
(* nothing, an empty platform list included, is completed with progress    *)
(* 100 and total_results 0 once its loop is over.                          *)
C2_EmptyOutcomeCompletes ==
  \A j \in JobIds :
    (AfterLoop(j) /\ hist[j].returned = 0)
      => /\ jobs[j].status = "completed"
         /\ jobs[j].progress = 100
         /\ jobs[j].total_results = 0

C2_Witness ==
  \E j1, j2 \in JobIds :
    /\ task[j1].pc = "done" /\ task[j1].platforms = <<>>
    /\ task[j2].pc = "done" /\ Len(task[j2].platforms) = 2
    /\ hist[j2].raised
    /\ \A j \in {j1, j2} : /\ jobs[j].status = "completed"
                           /\ jobs[j].progress = 100
                           /\ jobs[j].total_results = 0

(* C3 as stated: the status only moves pending -> running -> (completed |  *)
(* failed), a terminal status never changes, a completed job has progress  *)
(* 100 and a failed job has error_message set.                             *)
StatusStep(j, moves) ==
  /\ jobs'[j].status # jobs[j].status => <<jobs[j].status, jobs'[j].status>> \in moves
  /\ jobs'[j].status = "completed" => jobs'[j].progress = 100
  /\ jobs'[j].status = "failed" => jobs'[j].error_message # NoStr

StatedMoves ==
  { <<"pending", "running">>, <<"running", "completed">>, <<"running", "failed">> }

C3_StatusMovesAsStated ==
  [][\A j \in JobIds : StatusStep(j, StatedMoves)]_vars

(* C3 amended: as stated, or pending -> failed directly when the first     *)
(* update (to running) raises and the handler's update succeeds.           *)
C3_StatusMoves ==
  [][\A j \in JobIds :
       StatusStep(j, StatedMoves \cup {<<"pending", "failed">>})]_vars

C3_Witness ==
  \E j \in JobIds :
    /\ jobs[j].status = "failed"
    /\ jobs[j].error_message = "OperationalError"
    /\ task[j].pc = "done"

(* C4: when start_scrape_job finds an unexpired cache entry for the key it *)
(* returns (that entry's job id, true) and changes nothing else: no job    *)
(* row, no task, no listing, no cache row.                                 *)
C4_CacheHitChangesNothing ==
  [][/\ HitStep =>
          /\ \E c \in cache : /\ c.cache_key = ReqKey(req')
                              /\ c.job_id = req'.job_id
          /\ UNCHANGED <<call, now, platform_rows, jobs, cache, listings, task, hist,
                         fault_budget>>
     /\ MissStep =>
          ~ \E c \in cache : c.cache_key = ReqKey(req') /\ c.expires_at > now
    ]_vars

C4_Witness ==
  /\ req.phase = "returned"
  /\ req.cached
  /\ Len(jobs) = 1
  /\ req.job_id = 1

(* C5 as stated: a search submitted a second time within the TTL window   *)
(* of its first submission is answered cached=true with the first          *)
(* submission's job id, and no second job row is created.                  *)
SubmittedWithinTTL(j, cache_key) ==
  /\ task[j].cache_key = cache_key
  /\ now < jobs[j].created_at + CACHE_TTL_HOURS

C5_SecondSubmissionCached ==
  [][LET k == ReqKey(req')
     IN ((HitStep \/ MissStep) /\ \E j \in JobIds : SubmittedWithinTTL(j, k))
          => /\ HitStep
             /\ SubmittedWithinTTL(req'.job_id, k)
             /\ jobs' = jobs
    ]_vars

(* C5 amended: a search submitted again after the first submission's job   *)
(* has completed and stored its cache entry, and less than the TTL after   *)
(* that completion, is answered cached=true with that job's id, and no job *)
(* row is created.  A submission made before the first job has stored its  *)
(* entry misses the cache.                                                 *)
StoredWithinTTL(j, cache_key) ==
  /\ task[j].cache_key = cache_key
  /\ task[j].pc = "done"
  /\ jobs[j].status = "completed"
  /\ now < jobs[j].completed_at + CACHE_TTL_HOURS

C5_SubmissionAfterCompletionCached ==
  [][LET k == ReqKey(req')
     IN /\ ((HitStep \/ MissStep) /\ \E j \in JobIds : StoredWithinTTL(j, k))
             => /\ HitStep
                /\ StoredWithinTTL(req'.job_id, k)
                /\ jobs' = jobs
        /\ ((HitStep \/ MissStep) /\ ~ \E c \in cache : c.cache_key = k)
             => MissStep
    ]_vars

C5_Witness ==
  /\ req.phase = "returned"
  /\ req.cached
  /\ Len(req.platforms) = 2
  /\ req.platforms = task[req.job_id].platforms
  /\ StoredWithinTTL(req.job_id, ReqKey(req))
  /\ Len(jobs) = 1

(* C6: the cache lookup returns a job id only from a row that expires      *)
(* strictly after now, and none when every row of the key has expired.     *)
C6_ExpiredNeverReturned ==
  [][/\ HitStep =>
          \E c \in cache : /\ c.cache_key = ReqKey(req')
                           /\ c.job_id = req'.job_id
                           /\ c.expires_at > now
     /\ ((HitStep \/ MissStep)
           /\ \A c \in cache : c.cache_key = ReqKey(req') => c.expires_at <= now)
          => MissStep
    ]_vars

C6_Witness ==
  /\ req.phase = "creating"
  /\ \E c \in cache : c.cache_key = ReqKey(req) /\ c.expires_at = now
  /\ \A c \in cache : c.cache_key = ReqKey(req) => c.expires_at <= now

(* C7: every cache entry points at a completed job, and no failed job is   *)
(* referenced by a cache entry.                                            *)
C7_CacheOnlyCompleted ==
  /\ \A c \in cache : c.job_id \in JobIds /\ jobs[c.job_id].status = "completed"
  /\ \A j \in JobIds :
       jobs[j].status = "failed" => ~ \E c \in cache : c.job_id = j

C7_Witness ==
  \E c \in cache : /\ jobs[c.job_id].status = "completed"
                   /\ task[c.job_id].pc = "done"

(* C8: platform lists that are permutations of each other give the same    *)
(* cache key for the same criteria.                                        *)
RECURSIVE Count(_, _)
Count(k, s) ==
  IF s = <<>> THEN 0 ELSE (IF Head(s) = k THEN 1 ELSE 0) + Count(k, Tail(s))

IsPermutation(s1, s2) == \A k \in PlatformKeys : Count(k, s1) = Count(k, s2)

C8_PermutationSameKey ==
  \A j1, j2 \in JobIds :
    ( /\ jobs[j1].search_params = jobs[j2].search_params
      /\ IsPermutation(jobs[j1].platforms_requested, jobs[j2].platforms_requested) )
      => task[j1].cache_key = task[j2].cache_key

C8_Witness ==
  \E j1, j2 \in JobIds :
    /\ jobs[j1].search_params = jobs[j2].search_params
    /\ jobs[j1].platforms_requested # jobs[j2].platforms_requested
    /\ IsPermutation(jobs[j1].platforms_requested, jobs[j2].platforms_requested)
    /\ task[j1].cache_key = task[j2].cache_key

(* C9 as stated: the stored progress never decreases while the job is      *)
(* running, never exceeds 95 while running, and is 100 once completed.     *)
C9_ProgressMonotone ==
  [][\A j \in JobIds :
       /\ (jobs[j].status = "running" /\ jobs'[j].status = "running")
            => jobs'[j].progress >= jobs[j].progress
       /\ jobs'[j].status = "running" => jobs'[j].progress <= 95
       /\ jobs'[j].status = "completed" => jobs'[j].progress = 100
    ]_vars

(* C10: completed_at is set exactly once, by the job's first transition to *)
(* completed or failed, and no later update overwrites it.                 *)
C10_CompletedAtOnce ==
  \A j \in JobIds :
    /\ hist[j].stamps = (IF Terminal(jobs[j].status) THEN 1 ELSE 0)
    /\ (jobs[j].completed_at # NoInt) <=> Terminal(jobs[j].status)

C10_Witness ==
  \E j \in JobIds :
    /\ jobs[j].status = "completed"
    /\ task[j].pc = "crashed"
    /\ hist[j].stamps = 1
    /\ jobs[j].completed_at # NoInt

(* An exception raised before the completing update has reached the outer  *)
(* handler of job j's run: a completed status means the exception came     *)
(* from set_cache, after the loop and the completing update.               *)
EscapedLoop(j) ==
  /\ task[j].exc # NoStr
  /\ jobs[j].status # "completed"

(* C11: when an exception escapes the per-platform loop of a run (from a   *)
(* status update or the platform lookup), the job ends failed with         *)
(* error_message the exception's message, and no cache entry is written    *)
(* for the job.                                                            *)
C11_FatalErrorMarksFailed ==
  \A j \in JobIds :
    (RunOver(j) /\ EscapedLoop(j))
      => /\ jobs[j].status = "failed"
         /\ jobs[j].error_message = task[j].exc
         /\ ~ \E c \in cache : c.job_id = j

(* C12: every job that was created reaches completed or failed: no job     *)
(* stays pending or running for ever.  Nothing but the job's own run       *)
(* updates its row, so a run that has ended must have left a terminal      *)
(* status behind.                                                          *)
C12_NoJobLeftUnfinished ==
  \A j \in JobIds : RunOver(j) => Terminal(jobs[j].status)

(* Listings of job j in the two listing tables *)
Persisted(ls, j) == ls[j].auction + ls[j].used_car

(* C13: within one job the platforms are processed one at a time in the    *)
(* caller's order: the position in the list only moves forward by one, an  *)
(* adapter is invoked only from the loop, at the current position, and by  *)
(* then every listing returned by the adapters before it is persisted.     *)
C13_PlatformsInOrder ==
  [][\A j \in JobIds :
       /\ task'[j].idx \in {task[j].idx, task[j].idx + 1}
       /\ (task[j].pc # "search" /\ task'[j].pc = "search")
            => /\ task[j].pc = "loop"
               /\ task'[j].idx = task[j].idx
               /\ Persisted(listings, j) = hist[j].returned
       /\ (task[j].pc = "search" /\ task'[j].pc # "search")
            => /\ task'[j].pc = "loop"
               /\ task'[j].idx = task[j].idx + 1
               /\ Persisted(listings', j) = hist'[j].returned
    ]_vars

C13_Witness ==
  \E j \in JobIds :
    /\ task[j].platforms = <<"bat", "autotrader">>
    /\ task[j].idx = 1
    /\ task[j].pc = "search"
    /\ hist[j].returned > 0
    /\ listings[j].auction = hist[j].returned

(* A step of start_scrape_job that creates the job and returns *)
CreateStep == req.phase = "creating" /\ req'.phase = "returned"

(* C14: on a cache miss start_scrape_job returns (new job id, false)       *)
(* without waiting for the run: as it returns, the new job exists with     *)
(* status pending, progress 0 and total_results 0, its run has updated     *)
(* nothing yet, and no other job has moved.                                *)
C14_MissReturnsPendingJob ==
  [][CreateStep =>
       LET id == req'.job_id
       IN /\ ~req'.cached
          /\ id = Len(jobs) + 1
          /\ Len(jobs') = id
          /\ jobs'[id].status = "pending"
          /\ jobs'[id].progress = 0
          /\ jobs'[id].total_results = 0
          /\ jobs'[id].platforms_requested = req.platforms
          /\ task'[id].pc = "scheduled"
          /\ hist'[id] = NewHist
          /\ \A j \in JobIds : jobs'[j] = jobs[j] /\ task'[j] = task[j]
    ]_vars

C14_Witness ==
  /\ req.phase = "returned"
  /\ ~req.cached
  /\ req.job_id = 2
  /\ Len(jobs) = 2
  /\ jobs[2].status = "pending"
  /\ task[2].pc = "scheduled"
  /\ task[1].pc = "search"
  /\ jobs[1].status = "running"

-----------------------------------------------------------------------------
(* Auction adapters: normalisation of one listing                          *)
(* (backend/scrapers/bat.py, backend/scrapers/carsandbids.py).             *)
(*                                                                         *)
(* A text is a sequence of tokens: the words of a result label and the     *)
(* characters of an amount.  "x in text" of the code is containment of the *)
(* words of x, adjacent and in order.                                      *)

MaxTextLen == 3

(* An optional value: None, or Some(x) *)
None == <<>>

Some(x) == <<x>>

Get(opt) == opt[1]

AmountTokens == {"$", ",", ".", "5"}

Labels == { <<>>, <<"sold", "for">>, <<"not", "sold">>, <<"bid", "to">> }

RECURSIVE TextsUpTo(_)
TextsUpTo(n) ==
  IF n = 0 THEN {<<>>}
  ELSE TextsUpTo(n - 1)
         \cup {Append(s, k) : s \in {t \in TextsUpTo(n - 1) : Len(t) = n - 1},
                              k \in AmountTokens}

Amounts == TextsUpTo(MaxTextLen)

(* words in text *)
Contains(text, words) ==
  \E i \in 0..(Len(text) - Len(words)) :
    \A k \in 1..Len(words) : text[i + k] = words[k]

(* text.replace(",", "").replace("$", "") *)
RECURSIVE Strip(_)
Strip(text) ==
  IF text = <<>> THEN <<>>
  ELSE IF Head(text) \in {",", "$"} THEN Strip(Tail(text))
       ELSE <<Head(text)>> \o Strip(Tail(text))

IsNumChar(c) == c \in {".", "5"}

(* The longest prefix of text matching [\d.]+ *)
RECURSIVE Run(_)
Run(text) ==
  IF text = <<>> \/ ~IsNumChar(Head(text)) THEN <<>>
  ELSE <<Head(text)>> \o Run(Tail(text))

(* re.findall(r"[\d.]+", text)[0]: the first run, <<>> when there is none *)
RECURSIVE FirstRun(_)
FirstRun(text) ==
  IF text = <<>> THEN <<>>
  ELSE IF IsNumChar(Head(text)) THEN Run(text)
       ELSE FirstRun(Tail(text))

RECURSIVE Dots(_)
Dots(run) ==
  IF run = <<>> THEN 0
  ELSE (IF Head(run) = "." THEN 1 ELSE 0) + Dots(Tail(run))

RECURSIVE Pow10(_)
Pow10(n) == IF n = 0 THEN 1 ELSE 10 * Pow10(n - 1)

(* The digits of run read as a decimal integer, and those after the dot *)
RECURSIVE Digits(_, _)
Digits(run, acc) ==
  IF run = <<>> THEN acc
  ELSE Digits(Tail(run), IF Head(run) = "." THEN acc ELSE 10 * acc + 5)

RECURSIVE AfterDot(_)
AfterDot(run) ==
  IF run = <<>> THEN 0
  ELSE IF Head(run) = "." THEN Len(run) - 1
       ELSE AfterDot(Tail(run))

(* float(run): the value num / den; ValueError (None) for a run with no    *)
(* digit or with two dots                                                  *)
float(run) ==
  IF Dots(run) > 1 \/ Dots(run) = Len(run) THEN None
  ELSE Some([num |-> Digits(run, 0), den |-> Pow10(AfterDot(run))])

(* _parse_price of both adapters *)
_parse_price(text) ==
  LET nums == FirstRun(Strip(text))
  IN IF nums = <<>> THEN None ELSE float(nums)

(* BaTScraper._parse_listing_card on a card with a title: price_el is the  *)
(* text of .bid-formatted (None without the element), bid_label that of    *)
(* .bid-label, sold_text that of .item-results                             *)
_parse_listing_card(card) ==
  IF ~card.has_title THEN None
  ELSE
    LET price == IF card.price_el = None THEN None
                 ELSE _parse_price(Get(card.price_el))
        is_sold ==
          \/ Contains(card.sold_text, <<"sold">>)
               /\ ~Contains(card.sold_text, <<"not", "sold">>)
          \/ Contains(card.bid_label, <<"sold">>)
    IN Some([ sold_price   |-> IF is_sold THEN price ELSE None,
              starting_bid |-> IF ~is_sold THEN price ELSE None,
              is_sold      |-> is_sold ])

(* CarsAndBidsScraper._parse_api_listing: raw is the first truthy of       *)
(* item's sold_price, price, currentBid, of kind "str", "number" or "None"  *)
_parse_api_listing(item) ==
  LET raw == item.sold_price_raw
      is_sold == /\ item.status \in {"sold", "completed"}
                 /\ ~(raw.kind = "str" /\ (\/ Contains(raw.text, <<"not", "sold">>)
                                           \/ Contains(raw.text, <<"bid", "to">>)))
      sold_price == IF raw.kind = "None" THEN None
                    ELSE IF raw.kind = "str" THEN _parse_price(raw.text)
                    ELSE Some([num |-> raw.value, den |-> 1])
  IN Some([ sold_price   |-> IF is_sold THEN sold_price ELSE None,
            starting_bid |-> IF ~is_sold THEN sold_price ELSE None,
            is_sold      |-> is_sold ])

Cards ==
  [ has_title : BOOLEAN,
    price_el  : {None} \cup {Some(a) : a \in Amounts},
    sold_text : Labels,
    bid_label : Labels ]

Items ==
  [ status         : {"sold", "completed", "live", ""},
    sold_price_raw : {[kind |-> "None", value |-> 0, text |-> <<>>]}
                       \cup {[kind |-> "number", value |-> 55, text |-> <<>>]}
                       \cup {[kind |-> "str", value |-> 0, text |-> l \o a] :
                               l \in Labels, a \in Amounts} ]

(* The tables are empty and no request is in progress *)
NoJobs ==
  /\ now = 0
  /\ platform_rows = seed_platforms
  /\ jobs = <<>>
  /\ cache = {}
  /\ listings = <<>>
  /\ task = <<>>
  /\ hist = <<>>
  /\ req = Idle
  /\ fault_budget = 0

NoJobStep ==
  UNCHANGED <<now, platform_rows, jobs, cache, listings, task, hist, req, fault_budget>>

InitParse ==
  /\ NoJobs
  /\ call \in {[op |-> "_parse_listing_card", arg |-> c, done |-> FALSE, out |-> None] :
                 c \in Cards}
          \cup {[op |-> "_parse_api_listing", arg |-> i, done |-> FALSE, out |-> None] :
                 i \in Items}

bat_parse_listing_card ==
  /\ call.op = "_parse_listing_card"
  /\ ~call.done
  /\ call' = [call EXCEPT !.done = TRUE, !.out = _parse_listing_card(call.arg)]
  /\ NoJobStep

carsandbids_parse_api_listing ==
  /\ call.op = "_parse_api_listing"
  /\ ~call.done
  /\ call' = [call EXCEPT !.done = TRUE, !.out = _parse_api_listing(call.arg)]
  /\ NoJobStep

NextParse ==
  \/ bat_parse_listing_card
  \/ carsandbids_parse_api_listing

SpecParse == InitParse /\ [][NextParse]_vars

(* C15: every normalised auction listing has exactly one of sold_price and *)
(* starting_bid non-null, sold_price when is_sold and starting_bid         *)
(* otherwise, also when the price text is missing or cannot be parsed.     *)
C15_ExactlyOnePrice ==
  (call.op \in {"_parse_listing_card", "_parse_api_listing"}
     /\ call.done /\ call.out # None)
    => /\ (Get(call.out).sold_price # None) <=> Get(call.out).is_sold
       /\ (Get(call.out).starting_bid # None) <=> ~Get(call.out).is_sold

-----------------------------------------------------------------------------
(* BaseScraper._retry (backend/scrapers/base.py) *)

MAX_RETRIES == 3

Exceptions == {"TimeoutException", "HTTPStatusError", "ConnectError", "ReadError"}

Pages == {"page_a", "page_b"}

RECURSIVE Pow2(_)
Pow2(n) == IF n = 0 THEN 1 ELSE 2 * Pow2(n - 1)

(* _retry about to make its first attempt.  calls counts the calls of       *)
(* coro_func, raised lists the exceptions they raised, waits the times      *)
(* slept, in milliseconds (2 ** attempt seconds and a jitter of up to one   *)
(* second).                                                                 *)
InitRetry ==
  /\ NoJobs
  /\ call = [op |-> "_retry", pc |-> "call", attempt |-> 1, calls |-> 0,
             raised |-> <<>>, waits |-> <<>>, out |-> None, exc |-> None]

(* Line 61: coro_func returns *)
retry_call_returns(r) ==
  /\ call.op = "_retry"
  /\ call.pc = "call"
  /\ call' = [call EXCEPT !.pc = "returned", !.calls = @ + 1, !.out = Some(r)]
  /\ NoJobStep

(* Faulty variant of retry_call_raises: one attempt more before giving up *)
retry_call_raises_once_more(e) ==
  /\ call.op = "_retry"
  /\ call.pc = "call"
  /\ call' = [call EXCEPT
                !.calls = @ + 1,
                !.raised = Append(@, e),
                !.pc = IF call.attempt = MAX_RETRIES + 1 THEN "raised" ELSE "sleep",
                !.exc = IF call.attempt = MAX_RETRIES + 1 THEN Some(e) ELSE @]
  /\ NoJobStep

(* Lines 62-69: coro_func raises e; re-raise on the last attempt *)
retry_call_raises(e) ==
  /\ call.op = "_retry"
  /\ call.pc = "call"
  /\ call' = [call EXCEPT
                !.calls = @ + 1,
                !.raised = Append(@, e),
                !.pc = IF call.attempt = MAX_RETRIES THEN "raised" ELSE "sleep",
                !.exc = IF call.attempt = MAX_RETRIES THEN Some(e) ELSE @]
  /\ NoJobStep

(* random.uniform(0, 1) of line 63, in milliseconds *)
Jitters == {0, 500, 1000}

(* Faulty variant of retry_sleep: the same base wait after every attempt *)
retry_sleep_flat(jitter) ==
  /\ call.op = "_retry"
  /\ call.pc = "sleep"
  /\ call' = [call EXCEPT !.pc = "call", !.attempt = @ + 1,
                          !.waits = Append(@, Pow2(1) * 1000 + jitter)]
  /\ NoJobStep

(* Lines 63 and 70: wait = 2 ** attempt + random.uniform(0, 1),            *)
(* asyncio.sleep(wait), then the next attempt of the for loop              *)
retry_sleep(jitter) ==
  /\ call.op = "_retry"
  /\ call.pc = "sleep"
  /\ call' = [call EXCEPT !.pc = "call", !.attempt = @ + 1,
                          !.waits = Append(@, Pow2(call.attempt) * 1000 + jitter)]
  /\ NoJobStep

NextRetry ==
  \/ \E r \in Pages : retry_call_returns(r)
  \/ \E e \in Exceptions : retry_call_raises(e)
  \/ \E jitter \in Jitters : retry_sleep(jitter)

SpecRetry == InitRetry /\ [][NextRetry]_vars

(* C16: _retry calls the operation at most MAX_RETRIES times, returns the  *)
(* result of the first successful call without calling again, and when     *)
(* every attempt failed re-raises the exception of the last attempt.       *)
C16_RetryBounded ==
  call.op = "_retry" =>
    /\ call.calls <= MAX_RETRIES
    /\ call.pc \in {"call", "sleep"}
         => call.out = None /\ call.exc = None /\ call.calls = Len(call.raised)
    /\ call.pc = "returned"
         => /\ call.out # None
            /\ call.exc = None
            /\ call.calls = Len(call.raised) + 1
    /\ call.pc = "raised"
         => /\ call.out = None
            /\ call.calls = MAX_RETRIES
            /\ Len(call.raised) = MAX_RETRIES
            /\ call.exc = Some(call.raised[MAX_RETRIES])

C16_Witness ==
  /\ call.op = "_retry"
  /\ call.pc = "raised"
  /\ call.raised = <<"TimeoutException", "HTTPStatusError", "ConnectError">>
  /\ call.exc = Some("ConnectError")
  /\ call.waits = <<2000, 4000>>

-----------------------------------------------------------------------------
(* Pagination of the httpx adapters: AutoScout24Scraper.search and         *)
(* BaTScraper._search_static (a single page), each page fetched through    *)
(* _retry(_fetch_page).                                                    *)

MaxPerPage == 2

Paginated ==
  { [name |-> "AutoScout24Scraper.search", max_pages |-> SCRAPER_MAP.autoscout24.max_pages],
    [name |-> "BaTScraper._search_static", max_pages |-> 1] }

(* The n listings parsed from page p *)
PageListings(p, n) == [i \in 1..n |-> <<p, i>>]

(* search entered: all_listings = [], first page, first attempt.  got is    *)
(* the number of listings each fetched page held, failed_page the page      *)
(* whose fetch exhausted its retries (0: none).                             *)
InitPaging ==
  /\ NoJobs
  /\ \E a \in Paginated :
       call = [op |-> "search", adapter |-> a.name, max_pages |-> a.max_pages,
               pc |-> "fetch", page |-> 1, attempt |-> 1, all_listings |-> <<>>,
               got |-> <<>>, failed_page |-> 0, progress |-> <<>>, out |-> None]

(* Faulty variant of search_fetch_raises: the exception of the exhausted   *)
(* retries leaves search                                                   *)
search_fetch_raises_propagates ==
  /\ call.op = "search"
  /\ call.pc = "fetch"
  /\ call' = IF call.attempt < MAX_RETRIES
             THEN [call EXCEPT !.attempt = @ + 1]
             ELSE [call EXCEPT !.pc = "raised", !.failed_page = call.page]
  /\ NoJobStep

(* _fetch_page raises: _retry sleeps and tries again, and on the last      *)
(* attempt re-raises into search, which logs and breaks out of the loop    *)
search_fetch_raises ==
  /\ call.op = "search"
  /\ call.pc = "fetch"
  /\ call' = IF call.attempt < MAX_RETRIES
             THEN [call EXCEPT !.attempt = @ + 1]
             ELSE [call EXCEPT !.pc = "returned", !.failed_page = call.page,
                               !.out = Some(call.all_listings)]
  /\ NoJobStep

(* _fetch_page returns a page with n listings: break on an empty page,     *)
(* else collect them, report progress, and go to the next page or return   *)
search_fetch_returns(n) ==
  /\ call.op = "search"
  /\ call.pc = "fetch"
  /\ LET all_listings == call.all_listings \o PageListings(call.page, n)
         last == n = 0 \/ call.page = call.max_pages
     IN call' = [call EXCEPT
                   !.got = Append(@, n),
                   !.all_listings = all_listings,
                   !.progress = IF n = 0 THEN @
                                ELSE Append(@, <<call.page, call.max_pages,
                                                 Len(all_listings)>>),
                   !.pc = IF last THEN "returned" ELSE "fetch",
                   !.page = IF last THEN @ ELSE @ + 1,
                   !.attempt = IF last THEN @ ELSE 1,
                   !.out = IF last THEN Some(all_listings) ELSE @]
  /\ NoJobStep

NextPaging ==
  \/ search_fetch_raises
  \/ \E n \in 0..MaxPerPage : search_fetch_returns(n)

SpecPaging == InitPaging /\ [][NextPaging]_vars

(* The listings of pages 1..k of a search whose pages held got[1..] *)
RECURSIVE Gathered(_, _)
Gathered(got, k) ==
  IF k = 0 THEN <<>> ELSE Gathered(got, k - 1) \o PageListings(k, got[k])

(* C17: when the fetch of page k fails with its retries exhausted, search  *)
(* does not raise: it fetches no further page and returns exactly the      *)
(* listings gathered from pages 1..k-1.                                    *)
C17_PartialPagesReturned ==
  (call.op = "search" /\ (call.failed_page # 0 \/ call.pc = "raised"))
    => /\ call.pc = "returned"
       /\ call.page = call.failed_page
       /\ Len(call.got) = call.failed_page - 1
       /\ call.out = Some(Gathered(call.got, call.failed_page - 1))

C17_Witness ==
  /\ call.op = "search"
  /\ call.pc = "returned"
  /\ call.failed_page = 3
  /\ call.got = <<2, 1>>
  /\ call.out = Some(<< <<1, 1>>, <<1, 2>>, <<2, 1>> >>)

-----------------------------------------------------------------------------
(* Aggregator (backend/services/aggregator.py).                            *)
(*                                                                         *)
(* A float is an integer count of thousandths; a dict is a function on its *)
(* keys.  round() goes to the nearest multiple of the step; a decimal      *)
(* halfway case is not exact in binary and lands on either neighbour, the  *)
(* one named by tie ("down" or "up").                                      *)

MaxListings == 2

Thousandths == 1000

EmptyDict == [k \in {} |-> 0]

Ties == {"down", "up"}

(* round(num / den, ndigits) with step the size of 10 ** -ndigits *)
round(num, den, step, tie) ==
  LET q    == num \div (den * step)
      rem2 == 2 * (num - q * den * step)
  IN IF rem2 < den * step THEN q * step
     ELSE IF rem2 > den * step THEN (q + 1) * step
     ELSE IF tie = "down" THEN q * step ELSE (q + 1) * step

Hundredth == Thousandths \div 100

Tenth == Thousandths \div 10

RECURSIVE sum(_)
sum(values) == IF values = <<>> THEN 0 ELSE Head(values) + sum(Tail(values))

RECURSIVE InsertValue(_, _)
InsertValue(v, s) ==
  IF s = <<>> THEN <<v>>
  ELSE IF v <= Head(s) THEN <<v>> \o s
       ELSE <<Head(s)>> \o InsertValue(v, Tail(s))

(* sorted(values) *)
RECURSIVE sorted_values(_)
sorted_values(values) ==
  IF values = <<>> THEN <<>>
  ELSE InsertValue(Head(values), sorted_values(Tail(values)))

min(values) == sorted_values(values)[1]

max(values) == sorted_values(values)[Len(values)]

(* _median *)
_median(values, tie) ==
  LET s == sorted_values(values)
      n == Len(s)
  IN IF n % 2 = 1 THEN s[(n \div 2) + 1]
     ELSE round(s[n \div 2] + s[(n \div 2) + 1], 2, Hundredth, tie)

(* [l.column for l in rows if l.column is not None], the column scaled by *)
(* unit                                                                    *)
Column(rows, column, unit) ==
  LET Has(l) == l[column] # None
      kept   == SelectSeq(rows, Has)
  IN [i \in 1..Len(kept) |-> Get(kept[i][column]) * unit]

(* The keys a statistic adds when its list of values is not empty *)
MeanMedian(values, mean_key, median_key, step, tie) ==
  IF values = <<>> THEN EmptyDict
  ELSE (mean_key :> round(sum(values), Len(values), step, tie))
         @@ (median_key :> _median(values, tie))

MinMax(values, min_key, max_key) ==
  IF values = <<>> THEN EmptyDict
  ELSE (min_key :> min(values)) @@ (max_key :> max(values))

(* compute_auction_stats *)
compute_auction_stats(ls, tie) ==
  IF ls = <<>> THEN EmptyDict
  ELSE
    LET IsSoldPriced(l) == l.is_sold /\ l.sold_price # None /\ Get(l.sold_price) # 0
        Unsold(l)       == ~l.is_sold
        sold          == SelectSeq(ls, IsSoldPriced)
        unsold        == SelectSeq(ls, Unsold)
        sold_prices   == [i \in 1..Len(sold) |-> Get(sold[i].sold_price)]
        starting_bids == Column(ls, "starting_bid", 1)
        bid_counts    == Column(ls, "bid_count", Thousandths)
        auction_days  == Column(ls, "auction_days", Thousandths)
    IN ("total_listings" :> Len(ls))
         @@ ("total_sold" :> Len(sold))
         @@ ("total_unsold" :> Len(unsold))
         @@ ("sell_through_rate" :>
               round(Len(sold) * 100 * Thousandths, Len(ls), Tenth, tie))
         @@ MeanMedian(sold_prices, "mean_sold_price", "median_sold_price",
                       Hundredth, tie)
         @@ MinMax(sold_prices, "min_sold_price", "max_sold_price")
         @@ MeanMedian(starting_bids, "mean_starting_bid", "median_starting_bid",
                       Hundredth, tie)
         @@ MeanMedian(bid_counts, "mean_bids", "median_bids", Tenth, tie)
         @@ MeanMedian(auction_days, "mean_auction_days", "median_auction_days",
                       Tenth, tie)

(* compute_used_car_stats *)
compute_used_car_stats(ls, tie) ==
  IF ls = <<>> THEN EmptyDict
  ELSE
    LET prices   == Column(ls, "list_price", 1)
        days     == Column(ls, "days_on_market", Thousandths)
        mileages == Column(ls, "mileage", Thousandths)
        Active(l) == l.is_active
    IN ("total_listings" :> Len(ls))
         @@ ("active_listings" :> Len(SelectSeq(ls, Active)))
         @@ MeanMedian(prices, "mean_list_price", "median_list_price", Hundredth, tie)
         @@ MinMax(prices, "min_list_price", "max_list_price")
         @@ MeanMedian(days, "mean_days_on_market", "median_days_on_market", Tenth, tie)
         @@ MeanMedian(mileages, "mean_mileage", "median_mileage", Thousandths, tie)

(* Rows of auction_listings and used_car_listings as the aggregator reads  *)
(* them                                                                    *)
AuctionListings ==
  [ is_sold      : BOOLEAN,
    sold_price   : {None, Some(0), Some(20 * Thousandths)},
    starting_bid : {None, Some(10 * Thousandths)},
    bid_count    : {None, Some(3)},
    auction_days : {None, Some(7)} ]

UsedCarListings ==
  [ list_price     : {None, Some(10 * Thousandths), Some(25 * Thousandths)},
    days_on_market : {None, Some(30)},
    mileage        : {None, Some(50)},
    is_active      : BOOLEAN ]

RECURSIVE ListsUpTo(_, _)
ListsUpTo(S, n) ==
  IF n = 0 THEN {<<>>}
  ELSE ListsUpTo(S, n - 1)
         \cup {Append(s, x) : s \in {t \in ListsUpTo(S, n - 1) : Len(t) = n - 1}, x \in S}

InitStats ==
  /\ NoJobs
  /\ call \in {[op |-> "compute_auction_stats", arg |-> ls, done |-> FALSE, out |-> EmptyDict] :
                 ls \in ListsUpTo(AuctionListings, MaxListings)}
          \cup {[op |-> "compute_used_car_stats", arg |-> ls, done |-> FALSE, out |-> EmptyDict] :
                 ls \in ListsUpTo(UsedCarListings, MaxListings)}

(* Faulty variant of aggregator_compute_auction_stats: the counts are      *)
(* reported for an empty listing set too                                   *)
aggregator_compute_auction_stats_counts(tie) ==
  /\ call.op = "compute_auction_stats"
  /\ ~call.done
  /\ call' = [call EXCEPT
                !.done = TRUE,
                !.out = IF call.arg = <<>>
                        THEN ("total_listings" :> 0) @@ ("total_sold" :> 0)
                               @@ ("total_unsold" :> 0) @@ ("sell_through_rate" :> 0)
                        ELSE compute_auction_stats(call.arg, tie)]
  /\ NoJobStep

aggregator_compute_auction_stats(tie) ==
  /\ call.op = "compute_auction_stats"
  /\ ~call.done
  /\ call' = [call EXCEPT !.done = TRUE, !.out = compute_auction_stats(call.arg, tie)]
  /\ NoJobStep

aggregator_compute_used_car_stats(tie) ==
  /\ call.op = "compute_used_car_stats"
  /\ ~call.done
  /\ call' = [call EXCEPT !.done = TRUE, !.out = compute_used_car_stats(call.arg, tie)]
  /\ NoJobStep

NextStats ==
  \/ \E tie \in Ties : aggregator_compute_auction_stats(tie)
  \/ \E tie \in Ties : aggregator_compute_used_car_stats(tie)

SpecStats == InitStats /\ [][NextStats]_vars

(* C18: compute_auction_stats and compute_used_car_stats of an empty       *)
(* listing set both return an empty map, with no key, and raise nothing;   *)
(* of a non-empty set they return a map that counts its listings.          *)
C18_EmptyStats ==
  (call.op \in {"compute_auction_stats", "compute_used_car_stats"} /\ call.done)
    => IF call.arg = <<>>
       THEN DOMAIN call.out = {}
       ELSE /\ "total_listings" \in DOMAIN call.out
            /\ call.out["total_listings"] = Len(call.arg)

C18_Witness ==
  /\ call.op = "compute_used_car_stats"
  /\ call.done
  /\ call.arg = <<>>
  /\ call.out = EmptyDict

-----------------------------------------------------------------------------
(* compute_comparison_stats.  The exchange rate is a count of hundredths   *)
(* (1.08 is 108).                                                          *)

DefaultRate == 108

Rates == {DefaultRate, 100}

(* Faulty variant of direction: a zero delta also points to Germany *)
direction_nonnegative(delta) ==
  IF delta >= 0 THEN "Buy in Germany" ELSE "Buy in USA"

(* "Buy in Germany" if delta > 0 else "Buy in USA" *)
direction(delta) ==
  IF delta > 0 THEN "Buy in Germany" ELSE "Buy in USA"

compute_comparison_stats(usa_listings, germany_listings, eur_usd_rate, tie) ==
  LET usa_prices == Column(usa_listings, "list_price", 1)
      de_prices  == Column(germany_listings, "list_price", 1)
      usa_days   == Column(usa_listings, "days_on_market", Thousandths)
      de_days    == Column(germany_listings, "days_on_market", Thousandths)
      usa ==
        [ count               |-> Len(usa_listings),
          mean_price          |-> IF usa_prices = <<>> THEN None
                                  ELSE Some(round(sum(usa_prices), Len(usa_prices), Hundredth, tie)),
          median_price        |-> IF usa_prices = <<>> THEN None
                                  ELSE Some(_median(usa_prices, tie)),
          min_price           |-> IF usa_prices = <<>> THEN None ELSE Some(min(usa_prices)),
          max_price           |-> IF usa_prices = <<>> THEN None ELSE Some(max(usa_prices)),
          mean_days_on_market |-> IF usa_days = <<>> THEN None
                                  ELSE Some(round(sum(usa_days), Len(usa_days), Tenth, tie)),
          currency            |-> "USD" ]
      germany ==
        [ count               |-> Len(germany_listings),
          mean_price_eur      |-> IF de_prices = <<>> THEN None
                                  ELSE Some(round(sum(de_prices), Len(de_prices), Hundredth, tie)),
          median_price_eur    |-> IF de_prices = <<>> THEN None
                                  ELSE Some(_median(de_prices, tie)),
          min_price_eur       |-> IF de_prices = <<>> THEN None ELSE Some(min(de_prices)),
          max_price_eur       |-> IF de_prices = <<>> THEN None ELSE Some(max(de_prices)),
          mean_price_usd      |-> IF de_prices = <<>> THEN None
                                  ELSE Some(round(sum(de_prices) * eur_usd_rate,
                                                  Len(de_prices) * 100, Hundredth, tie)),
          median_price_usd    |-> IF de_prices = <<>> THEN None
                                  ELSE Some(round(_median(de_prices, tie) * eur_usd_rate,
                                                  100, Hundredth, tie)),
          mean_days_on_market |-> IF de_days = <<>> THEN None
                                  ELSE Some(round(sum(de_days), Len(de_days), Tenth, tie)),
          currency            |-> "EUR" ]
      usa_mean    == usa.mean_price
      de_mean_usd == germany.mean_price_usd
      delta       == round(Get(usa_mean) - Get(de_mean_usd), 1, Hundredth, tie)
      delta_pct   == IF Get(de_mean_usd) # 0
                     THEN round(delta * 100 * Thousandths, Get(de_mean_usd), Tenth, tie)
                     ELSE 0
      both        == usa_mean # None /\ de_mean_usd # None
  IN [ usa                 |-> usa,
       germany             |-> germany,
       price_delta_usd     |-> IF both THEN Some(delta) ELSE None,
       price_delta_pct     |-> IF both THEN Some(delta_pct) ELSE None,
       arbitrage_direction |-> IF both THEN Some(direction(delta)) ELSE None,
       eur_usd_rate        |-> eur_usd_rate ]

(* Rows of used_car_listings as compute_comparison_stats reads them *)
ComparedListings ==
  [ list_price     : {None, Some(0), Some(2500), Some(3000)},
    days_on_market : {None, Some(30)},
    mileage        : {None},
    is_active      : {TRUE} ]

InitComparison ==
  /\ NoJobs
  /\ call \in {[op |-> "compute_comparison_stats", usa |-> u, germany |-> g, rate |-> r,
                done |-> FALSE, out |-> EmptyDict] :
                 u \in ListsUpTo(ComparedListings, MaxListings),
                 g \in ListsUpTo(ComparedListings, MaxListings),
                 r \in Rates}

aggregator_compute_comparison_stats(tie) ==
  /\ call.op = "compute_comparison_stats"
  /\ ~call.done
  /\ call' = [call EXCEPT
                !.done = TRUE,
                !.out = compute_comparison_stats(call.usa, call.germany, call.rate, tie)]
  /\ NoJobStep

NextComparison == \E tie \in Ties : aggregator_compute_comparison_stats(tie)

SpecComparison == InitComparison /\ [][NextComparison]_vars

(* A region has a priced listing when one of its rows has a list_price *)
Priced(ls) == \E i \in 1..Len(ls) : ls[i].list_price # None

(* C19: compute_comparison_stats sets price_delta_usd, price_delta_pct and *)
(* arbitrage_direction all to null exactly when a region has no priced     *)
(* listing; otherwise price_delta_usd is the USA mean minus the German     *)
(* mean in USD, and arbitrage_direction is "Buy in Germany" when the delta *)
(* is positive and "Buy in USA" when it is zero or negative.               *)
C19_ComparisonDelta ==
  (call.op = "compute_comparison_stats" /\ call.done) =>
    LET out == call.out
    IN IF ~Priced(call.usa) \/ ~Priced(call.germany)
       THEN /\ out.price_delta_usd = None
            /\ out.price_delta_pct = None
            /\ out.arbitrage_direction = None
       ELSE /\ out.price_delta_usd # None
            /\ out.price_delta_pct # None
            /\ out.arbitrage_direction # None
            /\ Get(out.price_delta_usd)
                 = Get(out.usa.mean_price) - Get(out.germany.mean_price_usd)
            /\ Get(out.arbitrage_direction)
                 = IF Get(out.price_delta_usd) > 0 THEN "Buy in Germany" ELSE "Buy in USA"

(* USA mean 3.00 against a German mean of 2.50 EUR at 1.08, which is 2.70  *)
(* USD: the delta is 0.30 and the direction is Germany                     *)
C19_Witness ==
  /\ call.op = "compute_comparison_stats"
  /\ call.done
  /\ call.rate = DefaultRate
  /\ call.out.usa.mean_price = Some(3000)
  /\ call.out.germany.mean_price_usd = Some(2700)
  /\ call.out.price_delta_usd = Some(300)
  /\ call.out.arbitrage_direction = Some("Buy in Germany")

-----------------------------------------------------------------------------
(* _median on its own: one call on a list and one on a reordering of it.   *)
(* Both calls round the same operands, so they share the tie.              *)

MaxValues == 4

(* 10, 20, 30, 40, 1.004 and 1.01 *)
Values == {10 * Thousandths, 20 * Thousandths, 30 * Thousandths, 40 * Thousandths,
           1004, 1010}

Reorderings(values) ==
  {[i \in 1..Len(values) |-> values[p[i]]] : p \in Permutations(1..Len(values))}

InitMedian ==
  /\ NoJobs
  /\ call \in UNION {{[op |-> "_median", values |-> v, reordered |-> w, done |-> FALSE,
                         out |-> 0, out_reordered |-> 0] : w \in Reorderings(v)} :
                       v \in ListsUpTo(Values, MaxValues) \ {<<>>}}

(* Faulty variant of aggregator_median: the list is taken in the order     *)
(* given                                                                   *)
aggregator_median_unsorted(tie) ==
  /\ call.op = "_median"
  /\ ~call.done
  /\ LET n == Len(call.values)
         m(s) == IF n % 2 = 1 THEN s[(n \div 2) + 1]
                 ELSE round(s[n \div 2] + s[(n \div 2) + 1], 2, Hundredth, tie)
     IN call' = [call EXCEPT !.done = TRUE,
                             !.out = m(call.values),
                             !.out_reordered = m(call.reordered)]
  /\ NoJobStep

aggregator_median(tie) ==
  /\ call.op = "_median"
  /\ ~call.done
  /\ call' = [call EXCEPT !.done = TRUE,
                          !.out = _median(call.values, tie),
                          !.out_reordered = _median(call.reordered, tie)]
  /\ NoJobStep

NextMedian == \E tie \in Ties : aggregator_median(tie)

SpecMedian == InitMedian /\ [][NextMedian]_vars

(* The values in ascending order *)
Ascending(values) ==
  CHOOSE s \in Reorderings(values) : \A i \in 1..(Len(s) - 1) : s[i] <= s[i + 1]

MedianCalled == call.op = "_median" /\ call.done

(* C20 as stated: for every non-empty list the median is the middle        *)
(* element of the sorted list when the length is odd and the average of    *)
(* the two middle elements when it is even, whatever the input order, and  *)
(* it lies between the minimum and the maximum.                            *)
C20_MedianAsStated ==
  MedianCalled =>
    LET s == Ascending(call.values)
        n == Len(s)
    IN /\ IF n % 2 = 1
          THEN call.out = s[(n \div 2) + 1]
          ELSE 2 * call.out = s[n \div 2] + s[(n \div 2) + 1]
       /\ call.out_reordered = call.out
       /\ s[1] <= call.out
       /\ call.out <= s[n]

(* C20: for every non-empty list the median is the middle element of the   *)
(* sorted list when the length is odd and, when it is even, the average of *)
(* the two middle elements rounded to two decimals, whatever the input     *)
(* order; it lies within half a hundredth of the range from the minimum to *)
(* the maximum, and inside that range when no value has more than two      *)
(* decimals.                                                               *)
C20_MedianRounded ==
  MedianCalled =>
    LET s == Ascending(call.values)
        n == Len(s)
        twice == s[n \div 2] + s[(n \div 2) + 1]
    IN /\ IF n % 2 = 1
          THEN call.out = s[(n \div 2) + 1]
          ELSE /\ call.out % Hundredth = 0
               /\ 2 * call.out - twice <= Hundredth
               /\ twice - 2 * call.out <= Hundredth
       /\ call.out_reordered = call.out
       /\ 2 * s[1] - Hundredth <= 2 * call.out
       /\ 2 * call.out <= 2 * s[n] + Hundredth
       /\ (\A i \in 1..n : s[i] % Hundredth = 0)
            => (s[1] <= call.out /\ call.out <= s[n])

(* The median of [40, 10, 30, 20] is 25, in this order and in another *)
C20_Witness ==
  /\ MedianCalled
  /\ call.values = <<40 * Thousandths, 10 * Thousandths, 30 * Thousandths, 20 * Thousandths>>
  /\ call.reordered # call.values
  /\ call.out = 25 * Thousandths
  /\ call.out_reordered = 25 * Thousandths

-----------------------------------------------------------------------------
(* Duplicate fingerprints in search_cache *)

(* The step in which job j's run leaves set_cache, line 151 *)
StoreStep(j) == task[j].pc = "set_cache" /\ task'[j].pc # "set_cache"

(* C21: the cache store always adds a new entry, also when an entry with   *)
(* the same fingerprint, expired or not, already exists, and a later       *)
(* lookup of the fingerprint answers with the job id of an unexpired       *)
(* matching entry.                                                         *)
C21_StoreAlwaysAdds ==
  [][\A j \in JobIds :
       StoreStep(j) =>
         /\ task'[j].pc = "done"
         /\ \E c \in cache' \ cache : c.cache_key = task[j].cache_key /\ c.job_id = j
         /\ get_cached_job(cache', task[j].cache_key, now) # NoInt
    ]_vars

(* C22: of two identical searches submitted before either job stored its   *)
(* cache entry, both jobs are completed and stay completed once their runs *)
(* are over, and the cache write of the one that finishes second did not   *)
(* fail.                                                                   *)
C22_ConcurrentTwinsComplete ==
  \A j1, j2 \in JobIds :
    ( /\ j1 # j2
      /\ task[j1].cache_key = task[j2].cache_key
      /\ RunOver(j1) /\ RunOver(j2)
      /\ \E c \in cache : c.job_id = j1 /\ jobs[j2].created_at < c.expires_at )
      => /\ jobs[j1].status = "completed"
         /\ jobs[j2].status = "completed"
         /\ task[j2].pc = "done"

(* C23: a search submitted again after its cache entry has expired gets a  *)
(* new job that is completed once its run is over, and that job is the one *)
(* lookups of the fingerprint return during the new TTL window.            *)
C23_ResubmissionAfterExpiry ==
  \A j \in JobIds :
    ( /\ RunOver(j)
      /\ \E c \in cache : /\ c.cache_key = task[j].cache_key
                          /\ c.job_id # j
                          /\ c.expires_at <= jobs[j].created_at )
      => /\ jobs[j].status = "completed"
         /\ get_cached_job(cache, task[j].cache_key, jobs[j].completed_at) = j

-----------------------------------------------------------------------------
(* Storage errors inside the per-platform loop *)

Stored(j) == listings[j].auction + listings[j].used_car

(* An insert of listings an adapter returned for job j has failed *)
InsertFailed(j) == hist[j].returned > Stored(j)

(* C24: when persisting a platform's listings fails with a storage error,  *)
(* the job ends failed with the error message; it is never completed with  *)
(* that platform's listings missing.                                       *)
C24_InsertFailureFails ==
  \A j \in JobIds :
    InsertFailed(j) =>
      /\ jobs[j].status # "completed"
      /\ RunOver(j) => /\ jobs[j].status = "failed"
                       /\ jobs[j].error_message # NoStr

(* C25: a progress update that fails never changes a job's outcome: once   *)
(* its run is over the job is completed, and every listing its adapters    *)
(* returned is stored and counted in total_results.                        *)
C25_ProgressFailureHarmless ==
  \A j \in JobIds :
    (hist[j].progress_failed /\ RunOver(j))
      => /\ jobs[j].status = "completed"
         /\ Stored(j) = hist[j].returned
         /\ jobs[j].total_results = hist[j].returned

-----------------------------------------------------------------------------
(* The time window of an auction search: search_auctions puts the          *)
(* request's time_filter into search_params, _run_scrape_job calls         *)
(* scraper.search, and the adapter drops the listings that ended before    *)
(* the cutoff.  An end date is its age in days at the time of the search.  *)

TimeFilters == {"5m", "1y", "2y", "all"}

(* mapping of _compute_time_cutoff, in days *)
mapping == [t \in {"5m", "1y", "2y"} |-> IF t = "5m" THEN 150 ELSE IF t = "1y" THEN 365 ELSE 730]

(* _compute_time_cutoff: the age of the cutoff, None for no cutoff *)
_compute_time_cutoff(time_filter) ==
  IF time_filter = None \/ time_filter = Some("all") THEN None
  ELSE IF Get(time_filter) \in DOMAIN mapping THEN Some(mapping[Get(time_filter)])
       ELSE None

(* _apply_time_filter of BaTScraper: a listing without end date is kept,   *)
(* one with a datetime is kept when it is at or after the cutoff           *)
_apply_time_filter(ls, time_filter) ==
  LET time_cutoff == _compute_time_cutoff(time_filter)
      Keep(l) == l.auction_end_date = None
                   \/ Get(l.auction_end_date) <= Get(time_cutoff)
  IN IF time_cutoff = None \/ ls = <<>> THEN ls ELSE SelectSeq(ls, Keep)

(* Listings an auction adapter has extracted *)
Extracted == [auction_end_date : {None, Some(100), Some(200), Some(400), Some(800)}]

AuctionPlatforms == {k \in DOMAIN SCRAPER_MAP : SCRAPER_MAP[k].listing_type = "auction"}

InitTimeFilter ==
  /\ NoJobs
  /\ call \in {[op |-> "search_auctions", pc |-> "run", platform_key |-> k,
                search_params |-> [time_filter |-> t], time_filter |-> None,
                extracted |-> ls, persisted |-> <<>>] :
                 k \in AuctionPlatforms, t \in TimeFilters,
                 ls \in ListsUpTo(Extracted, MaxListings)}

(* job_manager.py lines 125-132: scraper.search is called with make,       *)
(* model, year_from, year_to, keyword and on_progress; time_filter keeps   *)
(* its default                                                             *)
run_scraper_search ==
  /\ call.op = "search_auctions"
  /\ call.pc = "run"
  /\ call' = [call EXCEPT !.pc = "search", !.time_filter = None]
  /\ NoJobStep

(* The adapter filters what it extracted and returns; the run stores the   *)
(* result                                                                  *)
search_apply_time_filter ==
  /\ call.op = "search_auctions"
  /\ call.pc = "search"
  /\ call' = [call EXCEPT !.pc = "done",
                          !.persisted = _apply_time_filter(call.extracted, call.time_filter)]
  /\ NoJobStep

NextTimeFilter ==
  \/ run_scraper_search
  \/ search_apply_time_filter

SpecTimeFilter == InitTimeFilter /\ [][NextTimeFilter]_vars

(* C26: for an auction job whose criteria carry time_filter 5m, 1y or 2y,  *)
(* every listing persisted for the job that has an auction end date has    *)
(* that date at or after the cutoff, now minus 150, 365 or 730 days.       *)
C26_TimeFilterApplied ==
  (call.op = "search_auctions" /\ call.pc = "done"
     /\ call.search_params.time_filter \in {"5m", "1y", "2y"})
    => \A i \in 1..Len(call.persisted) :
         call.persisted[i].auction_end_date # None
           => Get(call.persisted[i].auction_end_date)
                <= mapping[call.search_params.time_filter]

(* C27: whenever a job is completed, its total_results is the number of    *)
(* listing rows, auction and used-car, stored with the job's id, whichever *)
(* of its adapters returned listings, raised or returned nothing.          *)
C27_TotalIsStoredRows ==
  \A j \in JobIds :
    jobs[j].status = "completed" => jobs[j].total_results = Stored(j)

C27_Witness ==
  \E j \in JobIds :
    /\ jobs[j].status = "completed"
    /\ Len(task[j].platforms) = 2
    /\ listings[j].auction = 1
    /\ listings[j].used_car = 1
    /\ jobs[j].total_results = 2

(* C28: with several jobs running concurrently, every status or progress   *)
(* update and every listing insert of one job's run targets that job       *)
(* only: a step that changes a job's row or listings is a step of that     *)
(* job's own run and changes no other job's row or listings.               *)
C28_RunsWriteOwnJob ==
  [][\A j \in JobIds :
       (jobs'[j] # jobs[j] \/ listings'[j] # listings[j])
         => /\ task'[j] # task[j]
            /\ \A k \in JobIds \ {j} : /\ task'[k] = task[k]
                                       /\ jobs'[k] = jobs[k]
                                       /\ listings'[k] = listings[k]
    ]_vars

(* Two runs interleaved: job 1 has stored a platform's listings and goes   *)
(* on while job 2 is inside a search with a progress update written        *)
C28_Witness ==
  /\ Len(jobs) = 2
  /\ jobs[1].status = "running" /\ jobs[2].status = "running"
  /\ task[1].pc = "search" /\ task[2].pc = "search"
  /\ Stored(1) = 1 /\ Stored(2) = 0
  /\ jobs[2].progress > 0

(* C29: every listing persisted for a job is of the job's job_type, so     *)
(* that reading a completed job's listings by job id in the job's own type *)
(* returns exactly total_results records.                                  *)
C29_ListingsOfJobType ==
  \A j \in JobIds :
    /\ \A ltype \in DOMAIN NoListings :
         ltype # jobs[j].job_type => listings[j][ltype] = 0
    /\ jobs[j].status = "completed"
         => listings[j][jobs[j].job_type] = jobs[j].total_results

-----------------------------------------------------------------------------
(* Page loops of the rendered adapters: AutotraderScraper.search and       *)
(* CarsAndBidsScraper.search.  Listings are counted; every captured item   *)
(* parses.  yielded lists, for each page loaded, the number of listings it *)
(* added.                                                                  *)

Rendered == {"autotrader", "carsandbids"}

(* What the HTML of an Autotrader page holds when no API data was          *)
(* captured: nothing, __NEXT_DATA__ listings, or listing cards             *)
HtmlKinds == {"none", "json", "cards"}

InitPages ==
  /\ NoJobs
  /\ call \in {[op |-> "search", platform_key |-> k, pc |-> "loop", page_num |-> 1,
                max_pages |-> SCRAPER_MAP[k].max_pages,
                captured_api_data |-> 0, all_listings |-> 0, yielded |-> <<>>,
                blocked |-> FALSE] :
                 k \in Rendered}

(* The loop goes on to page_num + 1, or is over after max_pages *)
NextPage(c) ==
  IF c.page_num < c.max_pages THEN [c EXCEPT !.page_num = @ + 1]
  ELSE [c EXCEPT !.pc = "done"]

(* Faulty variant of autotrader_search_page: a page with the bot-detection *)
(* title is skipped and the loop goes on                                   *)
autotrader_search_page_skips_blocked(bot, captured, html, n) ==
  /\ call.op = "search" /\ call.platform_key = "autotrader"
  /\ call.pc = "loop"
  /\ LET captured_api_data == call.captured_api_data + captured
         new_items == IF captured_api_data > call.all_listings
                      THEN captured_api_data - call.all_listings ELSE 0
         loaded(k) == [call EXCEPT !.captured_api_data = captured_api_data,
                                   !.all_listings = @ + k,
                                   !.yielded = Append(@, k)]
     IN call' =
          IF bot THEN NextPage([loaded(0) EXCEPT !.blocked = TRUE])
          ELSE IF captured_api_data > 0 /\ call.all_listings + new_items > 0
               THEN NextPage(loaded(new_items))
          ELSE IF html = "none" THEN [loaded(0) EXCEPT !.pc = "done"]
          ELSE NextPage(loaded(n))
  /\ NoJobStep

(* autotrader.py lines 244-325, one iteration: bot is the bot-detection    *)
(* title, captured the items handle_response appends during the load, html *)
(* what the page content holds, n the listings it holds                    *)
autotrader_search_page(bot, captured, html, n) ==
  /\ call.op = "search" /\ call.platform_key = "autotrader"
  /\ call.pc = "loop"
  /\ LET captured_api_data == call.captured_api_data + captured
         new_items == IF captured_api_data > call.all_listings
                      THEN captured_api_data - call.all_listings ELSE 0
         loaded(k) == [call EXCEPT !.captured_api_data = captured_api_data,
                                   !.all_listings = @ + k,
                                   !.yielded = Append(@, k)]
     IN call' =
          IF bot THEN [loaded(0) EXCEPT !.pc = "done", !.blocked = TRUE]
          ELSE IF captured_api_data > 0 /\ call.all_listings + new_items > 0
               THEN NextPage(loaded(new_items))
          ELSE IF html = "none" THEN [loaded(0) EXCEPT !.pc = "done"]
          ELSE NextPage(loaded(n))
  /\ NoJobStep

(* carsandbids.py lines 216-289: the first page, from the captured API     *)
(* data or else from the HTML                                              *)
carsandbids_search_first_page(captured, n) ==
  /\ call.op = "search" /\ call.platform_key = "carsandbids"
  /\ call.pc = "loop"
  /\ call.page_num = 1
  /\ LET k == IF captured > 0 THEN captured ELSE n
     IN call' = NextPage([call EXCEPT !.captured_api_data = captured,
                                      !.all_listings = k,
                                      !.yielded = Append(@, k)])
  /\ NoJobStep

(* carsandbids.py lines 291-322, one iteration: load_more is whether the   *)
(* locator finds a button, captured the items its click brings             *)
carsandbids_search_load_more(load_more, captured) ==
  /\ call.op = "search" /\ call.platform_key = "carsandbids"
  /\ call.pc = "loop"
  /\ call.page_num >= 2
  /\ call' =
       IF call.all_listings = 0 \/ ~load_more THEN [call EXCEPT !.pc = "done"]
       ELSE IF captured = 0
            THEN [call EXCEPT !.pc = "done", !.yielded = Append(@, 0)]
            ELSE NextPage([call EXCEPT !.captured_api_data = @ + captured,
                                       !.all_listings = @ + captured,
                                       !.yielded = Append(@, captured)])
  /\ NoJobStep

NextPages ==
  \/ \E bot \in BOOLEAN, captured \in 0..MaxPerPage, html \in HtmlKinds, n \in 1..MaxPerPage :
       autotrader_search_page(bot, captured, html, n)
  \/ \E captured \in 0..MaxPerPage, n \in 0..MaxPerPage :
       carsandbids_search_first_page(captured, n)
  \/ \E load_more \in BOOLEAN, captured \in 0..MaxPerPage :
       carsandbids_search_load_more(load_more, captured)

SpecPages == InitPages /\ [][NextPages]_vars

(* C30: every adapter's search loads at most max_pages pages, and loads no *)
(* page after the first page that yields zero new items.                   *)
C30_PaginationStops ==
  call.op = "search" =>
    /\ Len(call.yielded) <= call.max_pages
    /\ \A i \in 1..(Len(call.yielded) - 1) : call.yielded[i] > 0

-----------------------------------------------------------------------------
(* Post-extraction filters of the adapters' search: year range, non-car    *)
(* items and keyword.  A listing carries its year and what the regular     *)
(* expressions and substring tests find in its title and URL.              *)

Years == {1990, 2005, 2020}

(* parts_keyword: the title matches _NON_CAR_KEYWORDS; for_phrase: it      *)
(* matches "for <word> <word>"; has_keyword: the requested keyword occurs  *)
(* in the description or the URL                                           *)
Parsed ==
  [ year          : {None} \cup {Some(y) : y \in Years},
    parts_keyword : BOOLEAN,
    for_phrase    : BOOLEAN,
    has_keyword   : BOOLEAN ]

(* Adapters with a filter after extraction, and two of those that put the  *)
(* year bounds into the search URL only                                    *)
Filtering == {"bat", "carsandbids", "kleinanzeigen"}

UrlOnly == {"autotrader", "mobilede"}

(* if year_from or year_to *)
AnyYearBound(year_from, year_to) == year_from # None \/ year_to # None

(* The two range tests shared by the filters, on a known year y *)
OutOfRange(y, year_from, year_to) ==
  \/ year_from # None /\ y < Get(year_from)
  \/ year_to # None /\ y > Get(year_to)

(* BaTScraper._is_non_car_item *)
_is_non_car_item(parsed) ==
  \/ parsed.for_phrase /\ parsed.parts_keyword
  \/ parsed.year = None /\ parsed.parts_keyword

(* Faulty variant of _matches_filters: an unknown year passes the range    *)
(* test                                                                    *)
_matches_filters_keeps_unknown(parsed, year_from, year_to, keyword) ==
  IF parsed.year # None /\ OutOfRange(Get(parsed.year), year_from, year_to) THEN FALSE
  ELSE IF _is_non_car_item(parsed) THEN FALSE
  ELSE IF keyword # None /\ ~parsed.has_keyword THEN FALSE
  ELSE TRUE

(* BaTScraper._matches_filters *)
_matches_filters(parsed, year_from, year_to, keyword) ==
  IF AnyYearBound(year_from, year_to) /\ parsed.year = None THEN FALSE
  ELSE IF parsed.year # None /\ OutOfRange(Get(parsed.year), year_from, year_to) THEN FALSE
  ELSE IF _is_non_car_item(parsed) THEN FALSE
  ELSE IF keyword # None /\ ~parsed.has_keyword THEN FALSE
  ELSE TRUE

(* CarsAndBidsScraper.search lines 327-349: keyword, then year range with  *)
(* unknown years excluded                                                  *)
carsandbids_filters(all_listings, year_from, year_to, keyword) ==
  LET KeywordOk(l) == l.has_keyword
      YearOk(l)    == l.year # None /\ ~OutOfRange(Get(l.year), year_from, year_to)
      by_keyword   == IF keyword # None /\ all_listings # <<>>
                      THEN SelectSeq(all_listings, KeywordOk) ELSE all_listings
  IN IF AnyYearBound(year_from, year_to) THEN SelectSeq(by_keyword, YearOk)
     ELSE by_keyword

(* KleinanzeigenScraper.search lines 237-250: year range with unknown      *)
(* years kept                                                              *)
kleinanzeigen_filters(all_listings, year_from, year_to) ==
  LET YearOk(l) == l.year = None \/ ~OutOfRange(Get(l.year), year_from, year_to)
  IN IF AnyYearBound(year_from, year_to) THEN SelectSeq(all_listings, YearOk)
     ELSE all_listings

(* What search returns of the listings it extracted *)
search_filters(platform_key, all_listings, year_from, year_to, keyword) ==
  LET BatOk(l) == _matches_filters(l, year_from, year_to, keyword)
  IN CASE platform_key = "bat" -> SelectSeq(all_listings, BatOk)
       [] platform_key = "carsandbids" ->
            carsandbids_filters(all_listings, year_from, year_to, keyword)
       [] platform_key = "kleinanzeigen" ->
            kleinanzeigen_filters(all_listings, year_from, year_to)
       [] OTHER -> all_listings

InitYear ==
  /\ NoJobs
  /\ call \in {[op |-> "search_filters", platform_key |-> k, done |-> FALSE,
                year_from |-> yf, year_to |-> yt, keyword |-> kw,
                extracted |-> ls, returned |-> <<>>] :
                 k \in Filtering \cup UrlOnly,
                 yf \in {None, Some(2000)}, yt \in {None, Some(2010)},
                 kw \in {None, Some("turbo")},
                 ls \in ListsUpTo(Parsed, MaxListings)}

search_returns_filtered ==
  /\ call.op = "search_filters"
  /\ ~call.done
  /\ call' = [call EXCEPT
                !.done = TRUE,
                !.returned = search_filters(call.platform_key, call.extracted,
                                            call.year_from, call.year_to, call.keyword)]
  /\ NoJobStep

NextYear == search_returns_filtered

SpecYear == InitYear /\ [][NextYear]_vars

Filtered == call.op = "search_filters" /\ call.done

(* C32: for every adapter, when year_from and/or year_to is requested, no  *)
(* returned listing has a known year below year_from or above year_to.     *)
C32_YearRangeApplied ==
  Filtered =>
    \A i \in 1..Len(call.returned) :
      call.returned[i].year # None
        => ~OutOfRange(Get(call.returned[i].year), call.year_from, call.year_to)

InReturned(l) == \E r \in 1..Len(call.returned) : call.returned[r] = l

(* The unknown-year listings of a list, in order *)
UnknownYear(ls) ==
  LET NoYear(l) == l.year = None
  IN SelectSeq(ls, NoYear)

SameButYear(l1, l2) == [l1 EXCEPT !.year = None] = [l2 EXCEPT !.year = None]

(* What C33 says of a search with a year bound *)
UnknownYearPolicy ==
  /\ (AnyYearBound(call.year_from, call.year_to)
        /\ call.platform_key \in {"bat", "carsandbids"})
       => UnknownYear(call.returned) = <<>>
  /\ (AnyYearBound(call.year_from, call.year_to) /\ call.platform_key = "kleinanzeigen")
       => UnknownYear(call.returned) = UnknownYear(call.extracted)

(* C33 as stated: with any year bound requested, the BaT and Cars & Bids   *)
(* adapters return no listing whose year is unknown, whereas Kleinanzeigen *)
(* returns every unknown-year listing it extracted; with no year bound     *)
(* requested, no adapter drops a listing because of its year: of two       *)
(* extracted listings that differ in their year only, both are returned or *)
(* neither.                                                                *)
C33_UnknownYearAsStated ==
  Filtered =>
    /\ UnknownYearPolicy
    /\ ~AnyYearBound(call.year_from, call.year_to)
         => \A i, j \in 1..Len(call.extracted) :
              SameButYear(call.extracted[i], call.extracted[j])
                => (InReturned(call.extracted[i]) <=> InReturned(call.extracted[j]))

(* C33: with any year bound requested, the BaT and Cars & Bids adapters    *)
(* return no listing whose year is unknown, whereas Kleinanzeigen returns  *)
(* every unknown-year listing it extracted; with no year bound requested,  *)
(* the only listing dropped because of its year is a BaT listing of        *)
(* unknown year whose title has a parts keyword, which the non-car filter  *)
(* excludes.                                                               *)
C33_UnknownYearPolicy ==
  Filtered =>
    /\ UnknownYearPolicy
    /\ ~AnyYearBound(call.year_from, call.year_to)
         => \A i, j \in 1..Len(call.extracted) :
              ( /\ SameButYear(call.extracted[i], call.extracted[j])
                /\ ~InReturned(call.extracted[i])
                /\ InReturned(call.extracted[j]) )
                => /\ call.platform_key = "bat"
                   /\ call.extracted[i].year = None
                   /\ call.extracted[i].parts_keyword

(* Kleinanzeigen with a lower bound: the unknown-year listing is returned, *)
(* the one from before the bound is not                                    *)
C33_Witness ==
  /\ Filtered
  /\ call.platform_key = "kleinanzeigen"
  /\ call.year_from # None
  /\ Len(call.extracted) = 2
  /\ call.extracted[1].year = Some(1990)
  /\ call.extracted[2].year = None
  /\ call.returned = <<call.extracted[2]>>

(***************************************************************************)
(* The time-window filter of the auction adapters, given each time_filter. *)
(* A BaT end date is what _parse_date returns, None or a datetime (its age *)
(* in days); a Cars & Bids end date is the end_date value of the API item, *)
(* None or a string (here tagged with the age of the date it spells).      *)
(***************************************************************************)
Ages == {100, 150, 151, 400, 800}

BatDated == [auction_end_date : {None} \cup {Some(a) : a \in Ages}]

IsoAges == {100, 800}

ApiDated == [auction_end_date : {None} \cup {Some([iso |-> a]) : a \in IsoAges}]

(* carsandbids.py lines 352-360: a listing is kept when its end date is    *)
(* None or a string; any other value is compared with the cutoff           *)
carsandbids_time_filter(all_listings, time_filter) ==
  LET time_cutoff == _compute_time_cutoff(time_filter)
      Keep(l) == l.auction_end_date = None
                   \/ "iso" \in DOMAIN Get(l.auction_end_date)
  IN IF time_cutoff # None /\ all_listings # <<>>
       THEN SelectSeq(all_listings, Keep)
       ELSE all_listings

InitCutoff ==
  /\ NoJobs
  /\ \/ call \in {[op |-> "time_filter", pc |-> "filter", platform_key |-> "bat",
                   time_filter |-> t, all_listings |-> ls, returned |-> <<>>] :
                    t \in {None} \cup {Some(f) : f \in TimeFilters},
                    ls \in ListsUpTo(BatDated, MaxListings)}
     \/ call \in {[op |-> "time_filter", pc |-> "filter", platform_key |-> "carsandbids",
                   time_filter |-> t, all_listings |-> ls, returned |-> <<>>] :
                    t \in {None} \cup {Some(f) : f \in TimeFilters},
                    ls \in ListsUpTo(ApiDated, MaxListings)}

(* bat.py line 351 *)
bat_search_apply_time_filter ==
  /\ call.op = "time_filter"
  /\ call.pc = "filter"
  /\ call.platform_key = "bat"
  /\ call' = [call EXCEPT !.pc = "done",
                          !.returned = _apply_time_filter(call.all_listings, call.time_filter)]
  /\ NoJobStep

(* carsandbids.py lines 351-362 *)
carsandbids_search_time_filter ==
  /\ call.op = "time_filter"
  /\ call.pc = "filter"
  /\ call.platform_key = "carsandbids"
  /\ call' = [call EXCEPT !.pc = "done",
                          !.returned = carsandbids_time_filter(call.all_listings, call.time_filter)]
  /\ NoJobStep

NextCutoff ==
  \/ bat_search_apply_time_filter
  \/ carsandbids_search_time_filter

SpecCutoff == InitCutoff /\ [][NextCutoff]_vars

(* the age in days of a listing's end date, None when there is no date *)
EndAge(platform_key, l) ==
  IF l.auction_end_date = None THEN None
  ELSE IF platform_key = "bat" THEN l.auction_end_date
       ELSE Some(Get(l.auction_end_date).iso)

(* the listings of ls the stated rule keeps *)
KeptAsStated(platform_key, ls, time_filter) ==
  LET Keep(l) == \/ time_filter = None
                 \/ Get(time_filter) = "all"
                 \/ EndAge(platform_key, l) = None
                 \/ Get(EndAge(platform_key, l)) <= mapping[Get(time_filter)]
  IN SelectSeq(ls, Keep)

(* C34: given a time_filter, an auction adapter returns exactly the        *)
(* listings whose end date is missing or at or after the cutoff of 150     *)
(* (5m), 365 (1y) or 730 (2y) days before now; for "all" or no filter it   *)
(* returns every listing.                                                  *)
C34_TimeFilterKeeps ==
  (call.op = "time_filter" /\ call.pc = "done")
    => call.returned = KeptAsStated(call.platform_key, call.all_listings, call.time_filter)

(* The rule of sold-status determination on one text *)
SoldByText(text) ==
  Contains(text, <<"sold">>) /\ ~Contains(text, <<"not", "sold">>)

(* The result text of a BaT card is that of .item-results, or, read        *)
(* widely, that of .item-results and .bid-label together; the rule gives   *)
(* one of these answers                                                    *)
SoldAsStated(c) ==
  IF c.op = "_parse_listing_card"
    THEN { SoldByText(c.arg.sold_text),
           /\ \/ Contains(c.arg.sold_text, <<"sold">>)
              \/ Contains(c.arg.bid_label, <<"sold">>)
           /\ ~Contains(c.arg.sold_text, <<"not", "sold">>)
           /\ ~Contains(c.arg.bid_label, <<"not", "sold">>) }
    ELSE { /\ c.arg.status \in {"sold", "completed"}
           /\ ~(/\ c.arg.sold_price_raw.kind = "str"
                /\ \/ Contains(c.arg.sold_price_raw.text, <<"not", "sold">>)
                   \/ Contains(c.arg.sold_price_raw.text, <<"bid", "to">>)) }

(* C35: an auction listing is marked sold exactly when its result text     *)
(* contains a sold token and no "not sold" token; a listing that is not    *)
(* marked sold has a null sold_price.                                      *)
C35_SoldAsStated ==
  (call.op \in {"_parse_listing_card", "_parse_api_listing"}
     /\ call.done /\ call.out # None)
    => /\ Get(call.out).is_sold \in SoldAsStated(call)
       /\ ~Get(call.out).is_sold => Get(call.out).sold_price = None

-----------------------------------------------------------------------------
(* Page loads and pacing delays of one search (bat.py 307-337,             *)
(* autotrader.py 244-326, carsandbids.py 219-320).  trace lists, in order, *)
(* the page requests (a "goto", a "click" on Load More, a "scroll" that     *)
(* loads more) and the calls of BaseScraper._delay ("delay").              *)

MaxPacedPages == 4

Loads == {"goto", "click", "scroll"}

Paced == {"bat", "autotrader", "carsandbids"}

InitPacing ==
  /\ NoJobs
  /\ call \in {[op |-> "paced_search", platform_key |-> k, pc |-> "goto", page_num |-> 1,
                max_pages |-> n, trace |-> <<>>] :
                 k \in Paced, n \in 1..MaxPacedPages}

(* bat.py 307-312 and carsandbids.py 218-223: the search page is opened;   *)
(* carsandbids.py 291-293: the load-more loop starts at page 2 and is left *)
(* at once when the first page gave no listing                             *)
search_goto(found) ==
  /\ call.op = "paced_search"
  /\ call.pc = "goto"
  /\ call.platform_key \in {"bat", "carsandbids"}
  /\ call' = IF call.platform_key = "bat"
               THEN [call EXCEPT !.pc = "loop", !.trace = Append(@, "goto")]
               ELSE [call EXCEPT !.pc = IF found /\ 2 <= call.max_pages THEN "loop" ELSE "done",
                                 !.page_num = 2,
                                 !.trace = Append(@, "goto")]
  /\ NoJobStep

(* The loop "for page_num in range(.., max_pages + 1)" moves on *)
NextPaced(c) ==
  IF c.page_num < c.max_pages THEN [c EXCEPT !.page_num = @ + 1]
  ELSE [c EXCEPT !.pc = "done"]

(* bat.py 315-337, one iteration: Load More is clicked ("click"), or the   *)
(* page is scrolled and grows ("grew") or does not ("same"), or a call     *)
(* raises ("raise")                                                        *)
bat_search_load_more(outcome) ==
  /\ call.op = "paced_search"
  /\ call.pc = "loop"
  /\ call.platform_key = "bat"
  /\ call' = CASE outcome = "click" ->
                    NextPaced([call EXCEPT !.trace = Append(@, "click")])
               [] outcome = "grew" ->
                    NextPaced([call EXCEPT !.trace = Append(@, "scroll")])
               [] OTHER -> [call EXCEPT !.pc = "done"]
  /\ NoJobStep

(* autotrader.py 244-326, one iteration: the page is opened; the loop is   *)
(* left on a bot-detection title ("blocked") or when no strategy finds a   *)
(* listing ("none"); with listings ("found") _delay is called unless this  *)
(* is page max_pages                                                       *)
autotrader_search_paced(outcome) ==
  /\ call.op = "paced_search"
  /\ call.pc \in {"goto", "loop"}
  /\ call.platform_key = "autotrader"
  /\ LET loaded == [call EXCEPT !.pc = "loop", !.trace = Append(@, "goto")]
     IN call' = IF outcome = "found"
                  THEN NextPaced([loaded EXCEPT !.trace =
                                    IF call.page_num < call.max_pages
                                      THEN Append(@, "delay") ELSE @])
                  ELSE [loaded EXCEPT !.pc = "done"]
  /\ NoJobStep

(* carsandbids.py 291-320, one iteration: _delay, then Load More is        *)
(* clicked and brings items ("more") or none ("empty"), or there is no     *)
(* button ("absent"), or a call raises ("raise")                           *)
carsandbids_search_paced(outcome) ==
  /\ call.op = "paced_search"
  /\ call.pc = "loop"
  /\ call.platform_key = "carsandbids"
  /\ LET delayed == [call EXCEPT !.trace = Append(@, "delay")]
     IN call' = CASE outcome = "more" ->
                       NextPaced([delayed EXCEPT !.trace = Append(@, "click")])
                  [] outcome = "empty" ->
                       [delayed EXCEPT !.pc = "done", !.trace = Append(@, "click")]
                  [] OTHER -> [delayed EXCEPT !.pc = "done"]
  /\ NoJobStep

NextPacing ==
  \/ \E found \in BOOLEAN : search_goto(found)
  \/ \E outcome \in {"click", "grew", "same", "raise"} : bat_search_load_more(outcome)
  \/ \E outcome \in {"found", "none", "blocked"} : autotrader_search_paced(outcome)
  \/ \E outcome \in {"more", "empty", "absent", "raise"} : carsandbids_search_paced(outcome)

SpecPacing == InitPacing /\ [][NextPacing]_vars

(* C36: within one search every two consecutive page loads have a call of  *)
(* the pacing delay between them, and no delay is taken after the last     *)
(* page load.                                                              *)
C36_DelayBetweenPages ==
  call.op = "paced_search"
    => /\ \A i \in 1..(Len(call.trace) - 1) :
            ~(call.trace[i] \in Loads /\ call.trace[i + 1] \in Loads)
       /\ call.pc = "done" /\ call.trace # <<>>
            => call.trace[Len(call.trace)] \in Loads

(* C37: the wait of _retry after failed attempt k, for k below             *)
(* MAX_RETRIES, is between 2^k and 2^k + 1 seconds, successive waits       *)
(* strictly increase, and there is no wait after the last failed attempt:  *)
(* every wait is followed by another attempt.                              *)
C37_RetryBackoff ==
  call.op = "_retry" =>
    /\ \A k \in 1..Len(call.waits) :
         /\ k <= MAX_RETRIES - 1
         /\ Pow2(k) * 1000 <= call.waits[k]
         /\ call.waits[k] <= Pow2(k) * 1000 + 1000
    /\ \A k \in 1..(Len(call.waits) - 1) : call.waits[k] < call.waits[k + 1]
    /\ call.pc \in {"call", "returned"} => Len(call.waits) = Len(call.raised)
    /\ call.pc \in {"sleep", "raised"} => Len(call.waits) = Len(call.raised) - 1

C37_Witness ==
  /\ call.op = "_retry"
  /\ call.pc = "raised"
  /\ Len(call.raised) = MAX_RETRIES
  /\ call.waits = <<3000, 4000>>

(* The listings of ls marked sold *)
MarkedSold(ls) ==
  LET IsSold(l) == l.is_sold
  IN SelectSeq(ls, IsSold)

(* C38: for a non-empty listing set the counts of compute_auction_stats    *)
(* partition it: total_sold + total_unsold = total_listings, and           *)
(* total_sold is the number of listings whose is_sold is true.             *)
C38_CountsPartition ==
  (call.op = "compute_auction_stats" /\ call.done /\ call.arg # <<>>)
    => /\ call.out["total_sold"] + call.out["total_unsold"] = call.out["total_listings"]
       /\ call.out["total_sold"] = Len(MarkedSold(call.arg))

-----------------------------------------------------------------------------
(* The captured API items of one Autotrader search (autotrader.py 224-242  *)
(* and 244-326).  captured_api_data lists, per captured item, whether      *)
(* _parse_listing makes a listing of it; an item is known by its position. *)
(* parsed lists the positions of the items handed to _parse_listing, and   *)
(* all_listings is len(all_listings).                                      *)

MaxCapturePages == 3

InitCapture ==
  /\ NoJobs
  /\ call \in {[op |-> "capture", pc |-> "loop", page_num |-> 1, max_pages |-> n,
                captured_api_data |-> <<>>, all_listings |-> 0, parsed |-> <<>>,
                api_page |-> FALSE] :
                 n \in 1..MaxCapturePages}

(* captured_api_data[start:], as positions *)
SliceFrom(captured_api_data, start) ==
  IF Len(captured_api_data) > start
    THEN [i \in 1..(Len(captured_api_data) - start) |-> start + i]
    ELSE <<>>

(* The number of items at the positions idx that parse *)
Parse(captured_api_data, idx) ==
  LET Ok(k) == captured_api_data[k]
  IN Len(SelectSeq(idx, Ok))

(* One iteration of the page loop: handle_response appends items to        *)
(* captured_api_data while the page loads; bot is the bot-detection title, *)
(* html what the page holds for strategies 2 and 3, n the listings they    *)
(* parse                                                                   *)
autotrader_search_captures(bot, items, html, n) ==
  /\ call.op = "capture"
  /\ call.pc = "loop"
  /\ LET captured_api_data == call.captured_api_data \o items
         new_items == SliceFrom(captured_api_data, call.all_listings)
         loaded == [call EXCEPT !.captured_api_data = captured_api_data,
                                !.api_page = FALSE]
         api == [loaded EXCEPT !.parsed = @ \o new_items,
                               !.all_listings = @ + Parse(captured_api_data, new_items),
                               !.api_page = TRUE]
     IN call' =
          IF bot THEN [loaded EXCEPT !.pc = "done"]
          ELSE IF captured_api_data # <<>> /\ api.all_listings > 0
               THEN NextPage(api)
          ELSE LET tried == IF captured_api_data # <<>>
                              THEN [api EXCEPT !.api_page = FALSE] ELSE loaded
               IN IF html = "none" THEN [tried EXCEPT !.pc = "done"]
                  ELSE NextPage([tried EXCEPT !.all_listings = @ + n])
  /\ NoJobStep

NextCapture ==
  \E bot \in BOOLEAN, items \in ListsUpTo(BOOLEAN, MaxPerPage),
     html \in HtmlKinds, n \in 0..MaxPerPage :
       autotrader_search_captures(bot, items, html, n)

SpecCapture == InitCapture /\ [][NextCapture]_vars

(* C39: no captured API item is handed to the parser twice, and after a    *)
(* page whose listings came from the captured API data every item          *)
(* captured so far has been handed to it.                                  *)
C39_CapturedParsedOnce ==
  call.op = "capture"
    => /\ \A i, j \in 1..Len(call.parsed) :
            i # j => call.parsed[i] # call.parsed[j]
       /\ call.api_page
            => \A k \in 1..Len(call.captured_api_data) :
                 \E i \in 1..Len(call.parsed) : call.parsed[i] = k

-----------------------------------------------------------------------------
(* run_scheduled_scrapes (backend/services/scheduler.py), the run of one   *)
(* watch-list entry, lines 34-104.  job is the status of the job row the   *)
(* entry created (None before create_job), session_ok whether the          *)
(* scheduler's session is usable, faults the database errors still to be   *)
(* injected, found the listings of the last search.                        *)

(* entry.platforms, split at commas *)
WatchedPlatforms ==
  { <<>>, <<"bat">>, <<"autotrader">>, <<"bat", "autotrader">>, <<"cargurus", "bat">> }

InitScheduler ==
  /\ NoJobs
  /\ call \in {[op |-> "run_scheduled_scrapes", pc |-> "entry", platforms |-> ps,
                idx |-> 1, job |-> None, session_ok |-> TRUE, faults |-> f,
                found |-> 0, total |-> 0] :
                 ps \in WatchedPlatforms, f \in 0..MaxFaults}

(* The outcomes of a database call made through the scheduler's session *)
SchedulerDbOutcomes ==
  IF ~call.session_ok THEN {"PendingRollbackError"}
  ELSE {"ok"} \cup (IF call.faults > 0 THEN {"OperationalError", "DBAPIError"} ELSE {})

(* The call record after a database call with outcome o *)
AfterDb(c, o) ==
  [c EXCEPT !.session_ok = @ /\ SessionUsable(o),
            !.faults = IF Injected(o) THEN @ - 1 ELSE @]

(* Lines 36-38: an entry without platforms is passed over *)
run_scheduled_scrapes_skips ==
  /\ call.op = "run_scheduled_scrapes"
  /\ call.pc = "entry"
  /\ call.platforms = <<>>
  /\ call' = [call EXCEPT !.pc = "entry_done"]
  /\ NoJobStep

(* Line 57: create_job; an exception reaches the handler of line 103 *)
run_scheduled_scrapes_create_job(o) ==
  /\ call.op = "run_scheduled_scrapes"
  /\ call.pc = "entry"
  /\ call.platforms # <<>>
  /\ o \in SchedulerDbOutcomes
  /\ call' = IF o = "ok"
               THEN [AfterDb(call, o) EXCEPT !.pc = "set_running", !.job = Some("pending")]
               ELSE [AfterDb(call, o) EXCEPT !.pc = "entry_failed"]
  /\ NoJobStep

(* Line 58: update_job_status(db, job.id, "running", progress=0) *)
run_scheduled_scrapes_set_running(o) ==
  /\ call.op = "run_scheduled_scrapes"
  /\ call.pc = "set_running"
  /\ o \in SchedulerDbOutcomes
  /\ call' = IF o = "ok"
               THEN [AfterDb(call, o) EXCEPT !.pc = "platform", !.job = Some("running")]
               ELSE [AfterDb(call, o) EXCEPT !.pc = "entry_failed"]
  /\ NoJobStep

(* Lines 61-70: the next platform; a key outside scraper_map is passed     *)
(* over, get_platform_by_name is outside the try of line 73                *)
run_scheduled_scrapes_get_platform(o) ==
  /\ call.op = "run_scheduled_scrapes"
  /\ call.pc = "platform"
  /\ call.idx <= Len(call.platforms)
  /\ IF call.platforms[call.idx] \notin DOMAIN SCRAPER_MAP
       THEN /\ o = "ok"
            /\ call' = [call EXCEPT !.idx = @ + 1]
       ELSE /\ o \in SchedulerDbOutcomes
            /\ call' = IF o = "ok"
                         THEN [AfterDb(call, o) EXCEPT !.pc = "search"]
                         ELSE [AfterDb(call, o) EXCEPT !.pc = "entry_failed"]
  /\ NoJobStep

(* Lines 73-81 and 89-90: scraper.search returns n listings or raises;     *)
(* the exception is logged and the loop goes on                            *)
run_scheduled_scrapes_search(raises, n) ==
  /\ call.op = "run_scheduled_scrapes"
  /\ call.pc = "search"
  /\ call' = IF raises \/ n = 0
               THEN [call EXCEPT !.pc = "platform", !.idx = @ + 1, !.found = 0]
               ELSE [call EXCEPT !.pc = "store", !.found = n]
  /\ NoJobStep

(* Lines 82-90: the listings are inserted; an exception of the insert is   *)
(* caught by the handler of line 89, with no rollback                      *)
run_scheduled_scrapes_add_listings(o) ==
  /\ call.op = "run_scheduled_scrapes"
  /\ call.pc = "store"
  /\ o \in SchedulerDbOutcomes
  /\ call' = [AfterDb(call, o) EXCEPT
                !.pc = "platform", !.idx = @ + 1, !.found = 0,
                !.total = IF o = "ok" THEN @ + call.found ELSE @]
  /\ NoJobStep

(* Line 92: update_job_status(db, job.id, "completed", ...) *)
run_scheduled_scrapes_completes(o) ==
  /\ call.op = "run_scheduled_scrapes"
  /\ call.pc = "platform"
  /\ call.idx > Len(call.platforms)
  /\ o \in SchedulerDbOutcomes
  /\ call' = IF o = "ok"
               THEN [AfterDb(call, o) EXCEPT !.pc = "last_run_at", !.job = Some("completed")]
               ELSE [AfterDb(call, o) EXCEPT !.pc = "entry_failed"]
  /\ NoJobStep

(* Lines 95-96: entry.last_run_at is set and committed *)
run_scheduled_scrapes_last_run_at(o) ==
  /\ call.op = "run_scheduled_scrapes"
  /\ call.pc = "last_run_at"
  /\ o \in SchedulerDbOutcomes
  /\ call' = [AfterDb(call, o) EXCEPT !.pc = IF o = "ok" THEN "entry_done" ELSE "entry_failed"]
  /\ NoJobStep

NextScheduler ==
  \/ run_scheduled_scrapes_skips
  \/ \E o \in {"ok", "OperationalError", "DBAPIError", "PendingRollbackError"} :
       \/ run_scheduled_scrapes_create_job(o)
       \/ run_scheduled_scrapes_set_running(o)
       \/ run_scheduled_scrapes_get_platform(o)
       \/ run_scheduled_scrapes_add_listings(o)
       \/ run_scheduled_scrapes_completes(o)
       \/ run_scheduled_scrapes_last_run_at(o)
  \/ \E raises \in BOOLEAN, n \in 0..MaxPerPage : run_scheduled_scrapes_search(raises, n)

SpecScheduler == InitScheduler /\ [][NextScheduler]_vars

(* C40: when the scheduler has finished with a watch-list entry, normally  *)
(* or through an error, the job it created for the entry is completed or   *)
(* failed.                                                                 *)
C40_ScheduledJobEnds ==
  (call.op = "run_scheduled_scrapes" /\ call.pc \in {"entry_done", "entry_failed"}
     /\ call.job # None)
    => Get(call.job) \in {"completed", "failed"}

====
